---- MODULE Spec2Model ----
(***************************************************************************)
(* Quest progress tracking of gamify-dashboard: QuestService and           *)
(* QuestConfigService over the Quest, DailyQuestProgress and               *)
(* WeeklyQuestProgress collections.                                        *)
(*                                                                         *)
(* One company, one user and one current period per quest type are         *)
(* modelled, so each progress collection holds at most one document.       *)
(* Every await of a store call is one atomic step of the calling           *)
(* operation; the synchronous code that follows it up to the next await    *)
(* belongs to the same step.                                               *)
(*                                                                         *)
(* A loaded document is a Mongoose document: save() sends only the paths   *)
(* that changed since it was loaded.  A changed top-level field is $set;   *)
(* a changed field of an existing array element is a positional $set       *)
(* guarded by the version key __v; pushed elements are a $push that        *)
(* increments __v; pushed elements together with changed elements are a    *)
(* $set of the whole array guarded by __v and incrementing it.  A guarded  *)
(* update that finds another version throws VersionError.                  *)
(***************************************************************************)
EXTENDS Integers, Sequences, FiniteSets, TLC

VARIABLES
  quests,     \* the Quest collection of the company, in insertion order
  docs,       \* the progress document of the current period, per quest type
  pc,         \* per worker: the await the running operation is suspended at
  op,         \* per worker: the operation it runs and its arguments
  loc,        \* per worker: the local variables of the running operation
  ret,        \* per worker: the value the operation returned
  nEvents,    \* history: updateProgress calls that returned their documents
  claims,     \* history: per objective id, claimObjective calls that returned success
  nOps,       \* operations issued so far (counted only where bounded)
  nChanges    \* updateQuest calls so far

vars == <<quests, docs, pc, op, loc, ret, nEvents, claims, nOps, nChanges>>

\* ------------------------------------------------------------------ bounds
MaxMessages == 2
MaxSuccess == 2
ScenarioMessages == 12
ScenarioSuccess == 3
MaxChanges == 2
MaxConcOps == 3
MaxConcChanges == 1
KeyWindow == 4
MaxObjectives == 3

\* ------------------------------------------------- values and collections
QT == {"daily", "weekly"}
AllWorkers == {"w1", "w2"}

Obj(id, mc, sc, xp, ord) ==
  [id |-> id, messageCount |-> mc, successMessageCount |-> sc,
   xpReward |-> xp, order |-> ord]

DefaultDailySuccess == 1
DefaultDailySuccessXp == 10
DefaultDailySend == 10
DefaultDailySendXp == 15
DefaultWeeklySend == 100
DefaultWeeklySendXp == 15
DefaultWeeklySuccess == 10
DefaultWeeklySuccessXp == 50

defaultQuests ==
  << [questId |-> "daily_quest", questType |-> "daily", isActive |-> TRUE,
      objectives |->
        << Obj("daily_success1", 0, DefaultDailySuccess, DefaultDailySuccessXp, 1),
           Obj("daily_send10", DefaultDailySend, 0, DefaultDailySendXp, 2) >>],
     [questId |-> "weekly_quest", questType |-> "weekly", isActive |-> TRUE,
      objectives |->
        << Obj("weekly_send100", DefaultWeeklySend, 0, DefaultWeeklySendXp, 1),
           Obj("weekly_success10", 0, DefaultWeeklySuccess, DefaultWeeklySuccessXp, 2) >>] >>

NoQuest == [exists |-> FALSE]
NoDoc == [exists |-> FALSE]
NoMem == [exists |-> FALSE]
NoRet == [kind |-> "none"]
NoOp == [name |-> "none"]

Max(a, b) == IF a >= b THEN a ELSE b
Min(a, b) == IF a <= b THEN a ELSE b

\* Array.prototype.sort((a, b) => a.order - b.order): a stable sort by order.
RECURSIVE InsertByOrder(_, _)
InsertByOrder(o, s) ==
  IF s = <<>> THEN <<o>>
  ELSE IF o.order < Head(s).order THEN <<o>> \o s
  ELSE <<Head(s)>> \o InsertByOrder(o, Tail(s))

RECURSIVE SortByOrder(_)
SortByOrder(s) ==
  IF s = <<>> THEN <<>>
  ELSE InsertByOrder(s[Len(s)], SortByOrder(SubSeq(s, 1, Len(s) - 1)))

\* Array.prototype.find: the first element with the id, or none.
RECURSIVE FindById(_, _)
FindById(s, id) ==
  IF s = <<>> THEN [found |-> FALSE]
  ELSE IF Head(s).id = id THEN [found |-> TRUE, obj |-> Head(s)]
  ELSE FindById(Tail(s), id)

RECURSIVE FindIndex(_, _, _)
FindIndex(s, id, i) ==
  IF i > Len(s) THEN 0
  ELSE IF s[i].objectiveId = id THEN i
  ELSE FindIndex(s, id, i + 1)

\* --------------------------------------------------- QuestConfigService
\* q.toObject() with the objectives sorted by order.
NormalizeQuest(q) ==
  [exists |-> TRUE, questId |-> q.questId, questType |-> q.questType,
   isActive |-> q.isActive, objectives |-> SortByOrder(q.objectives)]

\* Quest.find({companyId, questType, isActive: true}).sort({questId: 1}): the
\* quests of one type all carry the same questId, so the sort keeps them in
\* collection order.
getQuestsByType(qs, t) ==
  LET sel == SelectSeq(qs, LAMBDA q : q.questType = t /\ q.isActive)
  IN  [i \in 1..Len(sel) |-> NormalizeQuest(sel[i])]

\* dailyQuests[0] / weeklyQuests[0], undefined when there is none.
FirstQuest(qs, t) ==
  LET l == getQuestsByType(qs, t) IN IF Len(l) = 0 THEN NoQuest ELSE l[1]

\* Quest.find({companyId}).sort({questType: 1, questId: 1}): "daily" sorts
\* before "weekly"; inactive quests are included.
getAllQuests(qs) ==
  LET d == SelectSeq(qs, LAMBDA q : q.questType = "daily")
      w == SelectSeq(qs, LAMBDA q : q.questType = "weekly")
      all == d \o w
  IN  [i \in 1..Len(all) |-> NormalizeQuest(all[i])]

\* The sanitising map of updateQuest; idx is the 0-based array index.  A missing
\* number is read as 0 (obj.x || 0), and so is modelled by 0.
SanitizeObjective(obj, idx) ==
  LET msg == Max(0, obj.messageCount)
      suc == Max(0, obj.successMessageCount)
      both == msg > 0 /\ suc > 0
  IN  [id |-> obj.id,
       messageCount |-> IF both /\ ~(msg >= suc) THEN 0 ELSE msg,
       successMessageCount |-> IF both /\ msg >= suc THEN 0 ELSE suc,
       xpReward |-> Max(0, obj.xpReward),
       order |-> IF obj.order > 0 THEN obj.order ELSE idx + 1]

\* normalizedObjectives without the final renumbering map.
normalizedObjectives_NoRenumber(raw) ==
  LET mapped == [i \in 1..Len(raw) |-> SanitizeObjective(raw[i], i - 1)]
  IN  SortByOrder(mapped)

normalizedObjectives(raw) ==
  LET mapped == [i \in 1..Len(raw) |-> SanitizeObjective(raw[i], i - 1)]
      sorted == SortByOrder(mapped)
  IN  [i \in 1..Len(sorted) |-> [sorted[i] EXCEPT !.order = i]]

RECURSIVE FirstQuestIndex(_, _, _)
FirstQuestIndex(qs, questId, i) ==
  IF i > Len(qs) THEN 0
  ELSE IF qs[i].questId = questId THEN i
  ELSE FirstQuestIndex(qs, questId, i + 1)

\* Quest.findOneAndUpdate({companyId, questId}, {$set: sanitized}).
ApplyQuestUpdate(qs, questId, u) ==
  LET i == FirstQuestIndex(qs, questId, 1)
  IN  IF i = 0 THEN qs
      ELSE [qs EXCEPT ![i] =
              [@ EXCEPT !.objectives = IF u.hasObjectives
                                       THEN normalizedObjectives(u.objectives) ELSE @,
                        !.isActive = IF u.hasIsActive THEN u.isActive ELSE @]]

\* ------------------------------------------------------ progress documents
\* The objective state a progress document keeps for a catalog objective.
ObjectiveProgress(obj) ==
  [objectiveId |-> obj.id, messageCount |-> obj.messageCount,
   successMessageCount |-> obj.successMessageCount, xpReward |-> obj.xpReward,
   order |-> obj.order, completed |-> FALSE, claimed |-> FALSE]

\* SeedObjectives that seeds the objectives last to first.
SeedObjectives_Reversed(quest) ==
  IF quest.exists
  THEN [i \in 1..Len(quest.objectives) |->
          ObjectiveProgress(quest.objectives[Len(quest.objectives) + 1 - i])]
  ELSE <<>>

\* dailyQuest ? dailyQuest.objectives.map(...) : []
SeedObjectives(quest) ==
  IF quest.exists
  THEN [i \in 1..Len(quest.objectives) |-> ObjectiveProgress(quest.objectives[i])]
  ELSE <<>>

\* The document of a period nobody has seen yet.  Completed and
\* NotificationCount are written once here and never again; they are left out.
NewProgress(quest) ==
  [exists |-> TRUE, currentMessages |-> 0, currentSuccessMessages |-> 0,
   Objectives |-> SeedObjectives(quest), QuestSeen |-> TRUE, v |-> 0]

\* A document in memory: what was loaded (base) and what the code made of it.
Loaded(d) == IF d.exists THEN [exists |-> TRUE, base |-> d, cur |-> d] ELSE NoMem

\* IsCompletedNow with the thresholds compared strictly.
IsCompletedNow_Strict(progress, objective) ==
  IF objective.messageCount > 0
  THEN progress.currentMessages > objective.messageCount
  ELSE IF objective.successMessageCount > 0
  THEN progress.currentSuccessMessages > objective.successMessageCount
  ELSE FALSE

\* IsCompletedNow that completes an objective without thresholds.
IsCompletedNow_ZeroCompletes(progress, objective) ==
  IF objective.messageCount > 0
  THEN progress.currentMessages >= objective.messageCount
  ELSE IF objective.successMessageCount > 0
  THEN progress.currentSuccessMessages >= objective.successMessageCount
  ELSE TRUE

IsCompletedNow(progress, objective) ==
  IF objective.messageCount > 0
  THEN progress.currentMessages >= objective.messageCount
  ELSE IF objective.successMessageCount > 0
  THEN progress.currentSuccessMessages >= objective.successMessageCount
  ELSE FALSE

\* checkObjectiveCompletion that leaves QuestSeen alone.
checkObjectiveCompletion_KeepSeen(progress) ==
  [progress EXCEPT !.Objectives =
     [i \in 1..Len(progress.Objectives) |->
        LET o == progress.Objectives[i]
        IN  IF o.completed THEN o
            ELSE IF IsCompletedNow(progress, o) THEN [o EXCEPT !.completed = TRUE]
            ELSE o]]

\* checkObjectiveCompletion that clears QuestSeen whenever an objective is
\* completed, newly or not.
checkObjectiveCompletion_UnseenWhenCompleted(progress) ==
  LET objs == [i \in 1..Len(progress.Objectives) |->
                 LET o == progress.Objectives[i]
                 IN  IF o.completed THEN o
                     ELSE IF IsCompletedNow(progress, o)
                     THEN [o EXCEPT !.completed = TRUE]
                     ELSE o]
  IN  [progress EXCEPT !.Objectives = objs,
                       !.QuestSeen = IF \E i \in 1..Len(objs) : objs[i].completed
                                     THEN FALSE ELSE @]

checkObjectiveCompletion(progress) ==
  LET objs == [i \in 1..Len(progress.Objectives) |->
                 LET o == progress.Objectives[i]
                 IN  IF o.completed THEN o
                     ELSE IF IsCompletedNow(progress, o)
                     THEN [o EXCEPT !.completed = TRUE]
                     ELSE o]
      questCompleted == \E i \in 1..Len(objs) :
                          objs[i].completed /\ ~progress.Objectives[i].completed
  IN  [progress EXCEPT !.Objectives = objs,
                       !.QuestSeen = IF questCompleted THEN FALSE ELSE @]

\* IncrementTotals that counts a success message as a message too.
IncrementTotals_Both(progress, isSuccessMessage) ==
  [progress EXCEPT
     !.currentMessages = @ + 1,
     !.currentSuccessMessages = IF isSuccessMessage THEN @ + 1 ELSE @]

\* if (!isSuccessMessage) currentMessages += 1; if (isSuccessMessage) currentSuccessMessages += 1
IncrementTotals(progress, isSuccessMessage) ==
  [progress EXCEPT
     !.currentMessages = IF isSuccessMessage THEN @ ELSE @ + 1,
     !.currentSuccessMessages = IF isSuccessMessage THEN @ + 1 ELSE @]

\* ------------------------------------------------------------- migration
\* MissingObjectives that completes a pushed objective whose threshold the
\* document's totals have reached.
MissingObjectives_Inherit(progress, quest) ==
  LET ids == {progress.Objectives[i].objectiveId : i \in 1..Len(progress.Objectives)}
      miss == SelectSeq(quest.objectives, LAMBDA c : c.id \notin ids)
  IN  [i \in 1..Len(miss) |->
         [ObjectiveProgress(miss[i]) EXCEPT
            !.completed = IsCompletedNow(progress, ObjectiveProgress(miss[i]))]]

\* MissingObjectives that takes every catalog objective for missing.
MissingObjectives_Always(progress, quest) ==
  [i \in 1..Len(quest.objectives) |-> ObjectiveProgress(quest.objectives[i])]

\* The objective states pushed for the catalog objectives whose id the document
\* did not hold when the loop started.
MissingObjectives(progress, quest) ==
  LET ids == {progress.Objectives[i].objectiveId : i \in 1..Len(progress.Objectives)}
      miss == SelectSeq(quest.objectives, LAMBDA c : c.id \notin ids)
  IN  [i \in 1..Len(miss) |-> ObjectiveProgress(miss[i])]

\* RefreshObjective that starts the objective over when its values change.
RefreshObjective_Reset(progressObj, quest) ==
  LET f == FindById(quest.objectives, progressObj.objectiveId)
  IN  IF ~f.found THEN progressObj
      ELSE IF /\ progressObj.messageCount = f.obj.messageCount
              /\ progressObj.successMessageCount = f.obj.successMessageCount
              /\ progressObj.xpReward = f.obj.xpReward
              /\ progressObj.order = f.obj.order
      THEN progressObj
      ELSE [objectiveId |-> progressObj.objectiveId,
            messageCount |-> f.obj.messageCount,
            successMessageCount |-> f.obj.successMessageCount,
            xpReward |-> f.obj.xpReward, order |-> f.obj.order,
            completed |-> FALSE, claimed |-> FALSE]

\* RefreshObjective that retires the objective states the catalog no longer
\* holds: no reward, no order.
RefreshObjective_RetireOrphan(progressObj, quest) ==
  LET f == FindById(quest.objectives, progressObj.objectiveId)
  IN  IF ~f.found THEN [progressObj EXCEPT !.xpReward = 0, !.order = 0]
      ELSE [progressObj EXCEPT !.messageCount = f.obj.messageCount,
                               !.successMessageCount = f.obj.successMessageCount,
                               !.xpReward = f.obj.xpReward,
                               !.order = f.obj.order]

\* RefreshObjective that keeps the order the objective state had.
RefreshObjective_KeepOrder(progressObj, quest) ==
  LET f == FindById(quest.objectives, progressObj.objectiveId)
  IN  IF ~f.found THEN progressObj
      ELSE [progressObj EXCEPT !.messageCount = f.obj.messageCount,
                               !.successMessageCount = f.obj.successMessageCount,
                               !.xpReward = f.obj.xpReward]

\* RefreshObjective that makes a refreshed objective claimable again.
RefreshObjective_Unclaim(progressObj, quest) ==
  LET f == FindById(quest.objectives, progressObj.objectiveId)
  IN  IF ~f.found THEN progressObj
      ELSE [progressObj EXCEPT !.messageCount = f.obj.messageCount,
                               !.successMessageCount = f.obj.successMessageCount,
                               !.xpReward = f.obj.xpReward,
                               !.order = f.obj.order,
                               !.claimed = (@ /\ f.obj.xpReward = progressObj.xpReward)]

\* An objective state brought to the catalog's values; completed and claimed stay.
RefreshObjective(progressObj, quest) ==
  LET f == FindById(quest.objectives, progressObj.objectiveId)
  IN  IF ~f.found THEN progressObj
      ELSE [progressObj EXCEPT !.messageCount = f.obj.messageCount,
                               !.successMessageCount = f.obj.successMessageCount,
                               !.xpReward = f.obj.xpReward,
                               !.order = f.obj.order]

\* MigrateDocument that marks a document it changes as not seen.
MigrateDocument_Unseen(progress, quest) ==
  IF ~quest.exists THEN progress
  ELSE LET pushed == progress.Objectives \o MissingObjectives(progress, quest)
           objs == [i \in 1..Len(pushed) |-> RefreshObjective(pushed[i], quest)]
       IN  [progress EXCEPT !.Objectives = objs,
                            !.QuestSeen = IF objs = progress.Objectives THEN @ ELSE FALSE]

\* One iteration of the migration loop on one document, before its save.
MigrateDocument(progress, quest) ==
  IF ~quest.exists THEN progress
  ELSE LET pushed == progress.Objectives \o MissingObjectives(progress, quest)
       IN  [progress EXCEPT !.Objectives =
              [i \in 1..Len(pushed) |-> RefreshObjective(pushed[i], quest)]]

\* ------------------------------------------------------ document.save()
ObjectivesPushed(m) == Len(m.cur.Objectives) > Len(m.base.Objectives)

ObjectivesModified(m) ==
  \E i \in 1..Len(m.base.Objectives) : m.cur.Objectives[i] # m.base.Objectives[i]

IsDirty(m) == m.cur # m.base

\* The update is guarded by __v exactly when an existing element changed.
VersionConflict(stored, m) ==
  ObjectivesModified(m) /\ stored.v # m.base.v

MergeField(storedVal, baseVal, curVal) ==
  IF curVal # baseVal THEN curVal ELSE storedVal

\* Positional $set of the changed fields of element i.
MergeObjective(so, bo, co) ==
  [objectiveId |-> so.objectiveId,
   messageCount |-> MergeField(so.messageCount, bo.messageCount, co.messageCount),
   successMessageCount |->
     MergeField(so.successMessageCount, bo.successMessageCount, co.successMessageCount),
   xpReward |-> MergeField(so.xpReward, bo.xpReward, co.xpReward),
   order |-> MergeField(so.order, bo.order, co.order),
   completed |-> MergeField(so.completed, bo.completed, co.completed),
   claimed |-> MergeField(so.claimed, bo.claimed, co.claimed)]

SavedObjectives(stored, m) ==
  IF ObjectivesPushed(m) /\ ObjectivesModified(m) THEN m.cur.Objectives
  ELSE IF ObjectivesPushed(m)
  THEN stored.Objectives \o
       SubSeq(m.cur.Objectives, Len(m.base.Objectives) + 1, Len(m.cur.Objectives))
  ELSE IF ObjectivesModified(m)
  THEN [i \in 1..Len(stored.Objectives) |->
          IF i <= Len(m.base.Objectives)
          THEN MergeObjective(stored.Objectives[i], m.base.Objectives[i],
                              m.cur.Objectives[i])
          ELSE stored.Objectives[i]]
  ELSE stored.Objectives

\* The stored document after a save of m that met no version conflict.
SavedDocument(stored, m) ==
  [exists |-> TRUE,
   currentMessages |->
     MergeField(stored.currentMessages, m.base.currentMessages, m.cur.currentMessages),
   currentSuccessMessages |->
     MergeField(stored.currentSuccessMessages, m.base.currentSuccessMessages,
                m.cur.currentSuccessMessages),
   Objectives |-> SavedObjectives(stored, m),
   QuestSeen |-> MergeField(stored.QuestSeen, m.base.QuestSeen, m.cur.QuestSeen),
   v |-> IF ObjectivesPushed(m) THEN stored.v + 1 ELSE stored.v]

\* The document in memory after that save: clean, with the version it wrote.
AfterSave(m) ==
  LET d == [m.cur EXCEPT !.v = IF ObjectivesPushed(m) THEN @ + 1 ELSE @]
  IN  [exists |-> TRUE, base |-> d, cur |-> d]

\* ------------------------------------------------------ getUserProgress view
RECURSIVE SumProgress(_)
SumProgress(s) == IF s = <<>> THEN 0 ELSE Head(s).progress + SumProgress(Tail(s))

\* ObjectiveView that reports the counter itself as the progress.
ObjectiveView_Raw(objective, doc) ==
  LET i == FindIndex(doc.Objectives, objective.id, 1)
      current == IF objective.messageCount > 0 THEN doc.currentMessages
                 ELSE doc.currentSuccessMessages
      target == IF objective.messageCount > 0 THEN objective.messageCount
                ELSE objective.successMessageCount
  IN  [id |-> objective.id, progress |-> current, target |-> target,
       completed |-> IF i = 0 THEN FALSE ELSE doc.Objectives[i].completed,
       claimed |-> IF i = 0 THEN FALSE ELSE doc.Objectives[i].claimed,
       xp |-> objective.xpReward, order |-> objective.order]

\* One entry of dailyObjectives / weeklyObjectives (title and description are
\* rendered from the same thresholds and are left out).
ObjectiveView(objective, doc) ==
  LET i == FindIndex(doc.Objectives, objective.id, 1)
      current == IF objective.messageCount > 0 THEN doc.currentMessages
                 ELSE doc.currentSuccessMessages
      target == IF objective.messageCount > 0 THEN objective.messageCount
                ELSE objective.successMessageCount
  IN  [id |-> objective.id, progress |-> Min(current, target), target |-> target,
       completed |-> IF i = 0 THEN FALSE ELSE doc.Objectives[i].completed,
       claimed |-> IF i = 0 THEN FALSE ELSE doc.Objectives[i].claimed,
       xp |-> objective.xpReward, order |-> objective.order]

QuestView(quest, doc) ==
  LET sorted == SortByOrder(quest.objectives)
      objs == [i \in 1..Len(sorted) |-> ObjectiveView(sorted[i], doc)]
  IN  [msgCount |-> SumProgress(objs), successMsgCount |-> SumProgress(objs),
       objectives |-> objs, questSeen |-> doc.QuestSeen,
       notificationCount |->
         Cardinality({i \in 1..Len(objs) : objs[i].completed /\ ~objs[i].claimed})]

EmptyView ==
  [msgCount |-> 0, successMsgCount |-> 0, objectives |-> <<>>,
   questSeen |-> FALSE, notificationCount |-> 0]

\* The value returned when a quest type has no active quest and in the catch block.
EmptyProgress == [kind |-> "getUserProgress", daily |-> EmptyView, weekly |-> EmptyView]

ClaimError(e) == [kind |-> "claimObjective", success |-> FALSE, error |-> e, xp |-> 0]

\* The xp a successful claim returns: objective is the catalog objective found by
\* getAllQuests, objectiveProgress the objective state of the document.
ClaimXp(objective, objectiveProgress) == objective.xpReward

\* ------------------------------------------------------------ period keys
\* A New York local date is a day number: day 0 is Monday 2024-01-01.
IsLeapYear(y) == y % 4 = 0 /\ (y % 100 # 0 \/ y % 400 = 0)

DaysInYear(y) == IF IsLeapYear(y) THEN 366 ELSE 365

\* The day number of January 1st of year y.
RECURSIVE YearStart(_)
YearStart(y) ==
  IF y = 2024 THEN 0
  ELSE IF y > 2024 THEN YearStart(y - 1) + DaysInYear(y - 1)
  ELSE YearStart(y + 1) - DaysInYear(y)

RECURSIVE YearFrom(_, _)
YearFrom(n, y) ==
  IF n < YearStart(y) THEN YearFrom(n, y - 1)
  ELSE IF n >= YearStart(y + 1) THEN YearFrom(n, y + 1)
  ELSE y

\* Date.prototype.getFullYear / getDay (0 = Sunday) of a day number.
getFullYear(n) == YearFrom(n, 2024)

getDay(n) == (n + 1) % 7

\* Daylight saving time of America/New_York: from 2 a.m. of the second Sunday
\* of March to 2 a.m. of the first Sunday of November.
DstStart(y) ==
  LET march1 == YearStart(y) + DaysInYear(y) - 306
  IN  march1 + ((7 - getDay(march1)) % 7) + 7

DstEnd(y) ==
  LET november1 == YearStart(y) + DaysInYear(y) - 61
  IN  november1 + ((7 - getDay(november1)) % 7)

InDst(n, h) ==
  LET y == getFullYear(n)
  IN  /\ n > DstStart(y) \/ (n = DstStart(y) /\ h >= 3)
      /\ n < DstEnd(y) \/ (n = DstEnd(y) /\ h < 2)

\* The machines: one on America/New_York time (-5, with daylight saving time),
\* one on UTC (0), one on Asia/Tokyo time (9).  ObservesDst: the machine's zone
\* has daylight saving time; MachineOffset: the hours its clock is east of UTC
\* when it shows hour h of day n.
ObservesDst(zone) == zone = -5

MachineOffset(zone, n, h) == IF ObservesDst(zone) /\ InDst(n, h) THEN zone + 1 ELSE zone

\* getDateKey on a machine whose clock is offset hours east of UTC, for the
\* instant at which New York shows hour h of day n: the New York wall time is
\* parsed as machine-local time and toISOString() prints its UTC date.  The key
\* is that date, written as year and day of the year.
getDateKey(n, h, offset) ==
  LET utcDay == (n * 24 + h - offset) \div 24
  IN  << getFullYear(utcDay), utcDay - YearStart(getFullYear(utcDay)) + 1 >>

\* getWeekNumber of QuestService.ts: the week of the year of the Thursday of
\* the date's Monday-to-Sunday week.
getWeekNumber(date) ==
  LET dayNum == IF getDay(date) = 0 THEN 7 ELSE getDay(date)
      d == date + 4 - dayNum
      yearStart == YearStart(getFullYear(d))
  IN  ((d - yearStart) + 1 + 6) \div 7

\* getWeekKey of QuestService.ts: `${year}-W${week}` with the date's own year.
getWeekKey(date) == << getFullYear(date), getWeekNumber(date) >>

\* getWeekKey of the second copy of the service ("using ISO 8601"): the next
\* Thursday on or after the date, counted in weeks from the first Thursday on
\* or after January 4th of that Thursday's year.  The dates are midnights of
\* the machine's zone, so the difference is an hour short of whole days when
\* only the later one is in daylight saving time.
getWeekKeyIso8601(date, zone) ==
  LET thursdayOffset == (4 - getDay(date) + 7) % 7
      thursday == date + thursdayOffset
      jan4 == YearStart(getFullYear(thursday)) + 3
      jan4ThursdayOffset == (4 - getDay(jan4) + 7) % 7
      firstThursday == jan4 + jan4ThursdayOffset
      hoursDiff == (thursday - firstThursday) * 24
                     - (MachineOffset(zone, thursday, 0) - MachineOffset(zone, firstThursday, 0))
      daysDiff == hoursDiff \div 24
      weekNumber == (daysDiff \div 7) + 1
  IN  << getFullYear(thursday), weekNumber >>

\* ------------------------------------------------------------ the machine
EmptyLoc ==
  [t |-> "daily", mt |-> "daily",
   quest |-> [x \in QT |-> NoQuest], mem |-> [x \in QT |-> NoMem],
   mquest |-> [x \in QT |-> NoQuest], mdoc |-> NoMem,
   objective |-> [found |-> FALSE]]

Init ==
  /\ quests = <<>>
  /\ docs = [t \in QT |-> NoDoc]
  /\ pc = [w \in AllWorkers |-> "idle"]
  /\ op = [w \in AllWorkers |-> NoOp]
  /\ loc = [w \in AllWorkers |-> EmptyLoc]
  /\ ret = [w \in AllWorkers |-> NoRet]
  /\ nEvents = 0
  /\ claims = [id \in {} |-> 0]
  /\ nOps = 0
  /\ nChanges = 0

ClaimCount(id) == IF id \in DOMAIN claims THEN claims[id] ELSE 0

Goto(w, p) == pc' = [pc EXCEPT ![w] = p]

\* The operation returns r (or catches and returns r).
Finish(w, r) ==
  /\ pc' = [pc EXCEPT ![w] = "returned"]
  /\ ret' = [ret EXCEPT ![w] = r]
  /\ loc' = [loc EXCEPT ![w] = EmptyLoc]

\* A call is issued by an idle worker.  counted: the specification bounds the
\* number of calls issued.
Issue(w, o, first, l, counted) ==
  /\ pc[w] = "idle"
  /\ counted => nOps < MaxConcOps
  /\ nOps' = IF counted THEN nOps + 1 ELSE nOps
  /\ op' = [op EXCEPT ![w] = o]
  /\ pc' = [pc EXCEPT ![w] = first]
  /\ loc' = [loc EXCEPT ![w] = l]
  /\ UNCHANGED <<quests, docs, ret, nEvents, claims, nChanges>>

\* The caller returns to idle with the result consumed.
Return(w) ==
  /\ pc[w] = "returned"
  /\ pc' = [pc EXCEPT ![w] = "idle"]
  /\ op' = [op EXCEPT ![w] = NoOp]
  /\ ret' = [ret EXCEPT ![w] = NoRet]
  /\ UNCHANGED <<quests, docs, loc, nEvents, claims, nOps, nChanges>>

\* ------------------------------------------------ ensureQuestsInitialized
AfterInit(o) ==
  IF o.name = "updateProgress" THEN "u_quests"
  ELSE IF o.name = "claimObjective" THEN "c_quests"
  ELSE "g_dailyQuests"

\* initializeDefaultQuests: Quest.find({companyId}); done when any quest exists.
ensureQuestsInitialized(w) ==
  /\ pc[w] = "init"
  /\ Goto(w, IF Len(quests) > 0 THEN AfterInit(op[w]) ELSE "insert")
  /\ UNCHANGED <<quests, docs, op, loc, ret, nEvents, claims, nOps, nChanges>>

\* Quest.insertMany(docs) on the quests collection: the documents are appended.
\* The collection is given no unique key on (companyId, questId): the catalog
\* is described as a list of quests per type, without unique-key semantics.
insertMany(collection, newDocs) == collection \o newDocs

\* initializeDefaultQuests: Quest.insertMany(questsToCreate).
initializeDefaultQuests(w) ==
  /\ pc[w] = "insert"
  /\ quests' = insertMany(quests, defaultQuests)
  /\ Goto(w, AfterInit(op[w]))
  /\ UNCHANGED <<docs, op, loc, ret, nEvents, claims, nOps, nChanges>>

\* ---------------------------------------------------------- updateProgress
updateProgress(w, isSuccessMessage, maxM, maxS, counted) ==
  /\ \A t \in QT : docs[t].exists =>
        IF isSuccessMessage THEN docs[t].currentSuccessMessages < maxS
        ELSE docs[t].currentMessages < maxM
  /\ Issue(w, [name |-> "updateProgress", isSuccessMessage |-> isSuccessMessage],
           "init", EmptyLoc, counted)

\* getQuestsByType(type)[0] in updateDailyProgress / updateWeeklyProgress.
updateProgress_getQuests(w) ==
  /\ pc[w] = "u_quests"
  /\ loc' = [loc EXCEPT ![w].quest[loc[w].t] = FirstQuest(quests, loc[w].t)]
  /\ Goto(w, "u_find")
  /\ UNCHANGED <<quests, docs, op, ret, nEvents, claims, nOps, nChanges>>

\* findOne({companyId, userId, dateKey | weekKey}).
updateProgress_findOne(w) ==
  /\ pc[w] = "u_find"
  /\ loc' = [loc EXCEPT ![w].mem[loc[w].t] = Loaded(docs[loc[w].t])]
  /\ Goto(w, IF docs[loc[w].t].exists THEN "u_save" ELSE "u_upsert")
  /\ UNCHANGED <<quests, docs, op, ret, nEvents, claims, nOps, nChanges>>

\* findOneAndUpdate(..., {$setOnInsert: ...}, {upsert: true, new: true}).
updateProgress_upsert(w) ==
  LET t == loc[w].t
      d == IF docs[t].exists THEN docs[t] ELSE NewProgress(loc[w].quest[t])
  IN  /\ pc[w] = "u_upsert"
      /\ docs' = [docs EXCEPT ![t] = d]
      /\ loc' = [loc EXCEPT ![w].mem[t] = Loaded(d)]
      /\ Goto(w, "u_save")
      /\ UNCHANGED <<quests, op, ret, nEvents, claims, nOps, nChanges>>

\* UpdatedProgress without the completion check.
UpdatedProgress_NoCheck(m, isSuccessMessage) ==
  [m EXCEPT !.cur = IncrementTotals(m.cur, isSuccessMessage)]

\* The in-memory document of updateDailyProgress / updateWeeklyProgress before
\* its save: totals incremented, completion checked.
UpdatedProgress(m, isSuccessMessage) ==
  [m EXCEPT !.cur = checkObjectiveCompletion(IncrementTotals(m.cur, isSuccessMessage))]

\* Increment, check completion, progress.save(); then the weekly half, or return.
updateProgress_save(w) ==
  LET t == loc[w].t
      m == UpdatedProgress(loc[w].mem[t], op[w].isSuccessMessage)
      mems == [loc[w].mem EXCEPT ![t] = AfterSave(m)]
  IN  /\ pc[w] = "u_save"
      /\ IF VersionConflict(docs[t], m)
         THEN /\ Finish(w, [kind |-> "updateProgress", empty |-> TRUE])
              /\ UNCHANGED <<docs, nEvents>>
         ELSE /\ docs' = [docs EXCEPT ![t] = SavedDocument(docs[t], m)]
              /\ IF t = "daily"
                 THEN /\ loc' = [loc EXCEPT ![w].mem = mems, ![w].t = "weekly"]
                      /\ Goto(w, "init")
                      /\ UNCHANGED <<ret, nEvents>>
                 ELSE /\ Finish(w, [kind |-> "updateProgress", empty |-> FALSE,
                                    dailyProgress |-> mems["daily"].cur,
                                    weeklyProgress |-> mems["weekly"].cur])
                      /\ nEvents' = nEvents + 1
      /\ UNCHANGED <<quests, op, claims, nOps, nChanges>>

\* ---------------------------------------------------------- claimObjective
claimObjective(w, objectiveId, counted) ==
  Issue(w, [name |-> "claimObjective", objectiveId |-> objectiveId],
        "init", EmptyLoc, counted)

\* The loop over getAllQuests(): the first quest holding an objective with the id.
RECURSIVE FindObjective(_, _)
FindObjective(allQuests, objectiveId) ==
  IF allQuests = <<>> THEN [found |-> FALSE]
  ELSE LET f == FindById(Head(allQuests).objectives, objectiveId)
       IN  IF f.found
           THEN [found |-> TRUE, obj |-> f.obj, questType |-> Head(allQuests).questType]
           ELSE FindObjective(Tail(allQuests), objectiveId)

\* claimObjective_getAllQuests that resolves an objective the catalog no longer
\* holds from the daily document.
claimObjective_getAllQuests_FromDocument(w) ==
  LET f == FindObjective(getAllQuests(quests), op[w].objectiveId)
      d == docs["daily"]
      i == IF d.exists THEN FindIndex(d.Objectives, op[w].objectiveId, 1) ELSE 0
      st == d.Objectives[i]
      g == IF f.found \/ i = 0 THEN f
           ELSE [found |-> TRUE, questType |-> "daily",
                 obj |-> Obj(st.objectiveId, st.messageCount, st.successMessageCount,
                             st.xpReward, st.order)]
  IN  /\ pc[w] = "c_quests"
      /\ IF ~g.found
         THEN Finish(w, ClaimError("Objective not found"))
         ELSE /\ loc' = [loc EXCEPT ![w].objective = g, ![w].t = g.questType]
              /\ Goto(w, "c_find")
              /\ UNCHANGED ret
      /\ UNCHANGED <<quests, docs, op, nEvents, claims, nOps, nChanges>>

claimObjective_getAllQuests(w) ==
  LET f == FindObjective(getAllQuests(quests), op[w].objectiveId)
  IN  /\ pc[w] = "c_quests"
      /\ IF ~f.found
         THEN Finish(w, ClaimError("Objective not found"))
         ELSE /\ loc' = [loc EXCEPT ![w].objective = f, ![w].t = f.questType]
              /\ Goto(w, "c_find")
              /\ UNCHANGED ret
      /\ UNCHANGED <<quests, docs, op, nEvents, claims, nOps, nChanges>>

\* ClaimOutcome without the check of completed.
ClaimOutcome_SkipCompleted(d, i) ==
  IF ~d.exists THEN "Quest progress not found"
  ELSE IF i = 0 THEN "Objective progress not found"
  ELSE IF d.Objectives[i].claimed THEN "Objective already claimed"
  ELSE "ok"

\* ClaimOutcome without the check of claimed.
ClaimOutcome_SkipClaimed(d, i) ==
  IF ~d.exists THEN "Quest progress not found"
  ELSE IF i = 0 THEN "Objective progress not found"
  ELSE IF ~d.Objectives[i].completed THEN "Objective not completed yet"
  ELSE "ok"

\* The checks of claimObjective on the document found and on the index of the
\* objective state in it (0: none): the error returned, or "ok".
ClaimOutcome(d, i) ==
  IF ~d.exists THEN "Quest progress not found"
  ELSE IF i = 0 THEN "Objective progress not found"
  ELSE IF ~d.Objectives[i].completed THEN "Objective not completed yet"
  ELSE IF d.Objectives[i].claimed THEN "Objective already claimed"
  ELSE "ok"

\* claimObjective_findOne that also marks the quest as seen.
claimObjective_findOne_Seen(w) ==
  LET t == loc[w].t
      d == docs[t]
      i == IF d.exists THEN FindIndex(d.Objectives, op[w].objectiveId, 1) ELSE 0
      outcome == ClaimOutcome(d, i)
  IN  /\ pc[w] = "c_find"
      /\ IF outcome # "ok" THEN Finish(w, ClaimError(outcome))
         ELSE /\ loc' = [loc EXCEPT ![w].mem[t] =
                           [exists |-> TRUE, base |-> d,
                            cur |-> [d EXCEPT !.Objectives[i].claimed = TRUE,
                                              !.QuestSeen = TRUE]]]
              /\ Goto(w, "c_save")
              /\ UNCHANGED ret
      /\ UNCHANGED <<quests, docs, op, nEvents, claims, nOps, nChanges>>

\* findOne and the checks on the objective state; claimed = true in memory.
claimObjective_findOne(w) ==
  LET t == loc[w].t
      d == docs[t]
      i == IF d.exists THEN FindIndex(d.Objectives, op[w].objectiveId, 1) ELSE 0
      outcome == ClaimOutcome(d, i)
  IN  /\ pc[w] = "c_find"
      /\ IF outcome # "ok" THEN Finish(w, ClaimError(outcome))
         ELSE /\ loc' = [loc EXCEPT ![w].mem[t] =
                           [exists |-> TRUE, base |-> d,
                            cur |-> [d EXCEPT !.Objectives[i].claimed = TRUE]]]
              /\ Goto(w, "c_save")
              /\ UNCHANGED ret
      /\ UNCHANGED <<quests, docs, op, nEvents, claims, nOps, nChanges>>

\* progress.save() and the successful return.
claimObjective_save(w) ==
  LET t == loc[w].t
      m == loc[w].mem[t]
      id == op[w].objectiveId
      i == FindIndex(m.cur.Objectives, id, 1)
  IN  /\ pc[w] = "c_save"
      /\ IF VersionConflict(docs[t], m)
         THEN /\ Finish(w, ClaimError("Internal server error"))
              /\ UNCHANGED <<docs, claims>>
         ELSE /\ docs' = [docs EXCEPT ![t] = SavedDocument(docs[t], m)]
              /\ Finish(w, [kind |-> "claimObjective", success |-> TRUE,
                            xp |-> ClaimXp(loc[w].objective.obj, m.cur.Objectives[i])])
              /\ claims' = [x \in DOMAIN claims \cup {id} |->
                              ClaimCount(x) + IF x = id THEN 1 ELSE 0]
      /\ UNCHANGED <<quests, op, nEvents, nOps, nChanges>>

\* ----------------------------------------------------------- markQuestSeen
markQuestSeen(w, questType, counted) ==
  Issue(w, [name |-> "markQuestSeen", questType |-> questType],
        "s_find", [EmptyLoc EXCEPT !.t = questType], counted)

\* markQuestSeen_findOne that leaves QuestSeen of the loaded document false.
markQuestSeen_findOne_Unseen(w) ==
  LET t == loc[w].t
      d == docs[t]
  IN  /\ pc[w] = "s_find"
      /\ IF ~d.exists
         THEN Finish(w, [kind |-> "markQuestSeen", value |-> FALSE])
         ELSE /\ loc' = [loc EXCEPT ![w].mem[t] =
                           [exists |-> TRUE, base |-> d,
                            cur |-> [d EXCEPT !.QuestSeen = FALSE]]]
              /\ Goto(w, "s_save")
              /\ UNCHANGED ret
      /\ UNCHANGED <<quests, docs, op, nEvents, claims, nOps, nChanges>>

markQuestSeen_findOne(w) ==
  LET t == loc[w].t
      d == docs[t]
  IN  /\ pc[w] = "s_find"
      /\ IF ~d.exists
         THEN Finish(w, [kind |-> "markQuestSeen", value |-> FALSE])
         ELSE /\ loc' = [loc EXCEPT ![w].mem[t] =
                           [exists |-> TRUE, base |-> d,
                            cur |-> [d EXCEPT !.QuestSeen = TRUE]]]
              /\ Goto(w, "s_save")
              /\ UNCHANGED ret
      /\ UNCHANGED <<quests, docs, op, nEvents, claims, nOps, nChanges>>

markQuestSeen_save(w) ==
  LET t == loc[w].t
      m == loc[w].mem[t]
  IN  /\ pc[w] = "s_save"
      /\ IF VersionConflict(docs[t], m)
         THEN /\ Finish(w, [kind |-> "markQuestSeen", value |-> FALSE])
              /\ UNCHANGED docs
         ELSE /\ docs' = [docs EXCEPT ![t] = SavedDocument(docs[t], m)]
              /\ Finish(w, [kind |-> "markQuestSeen", value |-> TRUE])
      /\ UNCHANGED <<quests, op, nEvents, claims, nOps, nChanges>>

\* ---------------------------------------------------- migrateQuestProgress
migrateQuestProgress(w, counted) ==
  Issue(w, [name |-> "migrateQuestProgress"], "m_daily", EmptyLoc, counted)

\* The migration is over (it returned, or threw into its own catch block):
\* the public call returns, getUserProgress goes on to its completion check.
MigrationDone(w, l) ==
  IF op[w].name = "migrateQuestProgress"
  THEN Finish(w, [kind |-> "migrateQuestProgress"])
  ELSE /\ loc' = [loc EXCEPT ![w] =
                   [l EXCEPT !.mquest = EmptyLoc.mquest, !.mdoc = NoMem]]
       /\ Goto(w, "g_saveDaily")
       /\ UNCHANGED ret

migrateQuestProgress_getDaily(w) ==
  /\ pc[w] = "m_daily"
  /\ loc' = [loc EXCEPT ![w].mquest["daily"] = FirstQuest(quests, "daily")]
  /\ Goto(w, "m_weekly")
  /\ UNCHANGED <<quests, docs, op, ret, nEvents, claims, nOps, nChanges>>

migrateQuestProgress_getWeekly(w) ==
  LET wq == FirstQuest(quests, "weekly")
      l == [loc[w] EXCEPT !.mquest["weekly"] = wq, !.mt = "daily"]
  IN  /\ pc[w] = "m_weekly"
      /\ IF ~loc[w].mquest["daily"].exists /\ ~wq.exists
         THEN MigrationDone(w, l)
         ELSE /\ loc' = [loc EXCEPT ![w] = l]
              /\ Goto(w, "m_find")
              /\ UNCHANGED ret
      /\ UNCHANGED <<quests, docs, op, nEvents, claims, nOps, nChanges>>

\* After the documents of one collection: the weekly collection, or the end.
MigrationNext(w, l) ==
  IF l.mt = "daily"
  THEN /\ loc' = [loc EXCEPT ![w] = [l EXCEPT !.mt = "weekly", !.mdoc = NoMem]]
       /\ Goto(w, "m_find")
       /\ UNCHANGED ret
  ELSE MigrationDone(w, [l EXCEPT !.mdoc = NoMem])

\* find({companyId}) on one collection and the loop body up to the save.
migrateQuestProgress_find(w) ==
  LET t == loc[w].mt
      d == docs[t]
      m == [exists |-> TRUE, base |-> d, cur |-> MigrateDocument(d, loc[w].mquest[t])]
  IN  /\ pc[w] = "m_find"
      /\ IF d.exists /\ IsDirty(m)
         THEN /\ loc' = [loc EXCEPT ![w].mdoc = m]
              /\ Goto(w, "m_save")
              /\ UNCHANGED ret
         ELSE MigrationNext(w, loc[w])
      /\ UNCHANGED <<quests, docs, op, nEvents, claims, nOps, nChanges>>

\* if (needsUpdate) await progress.save(); a throw ends the whole migration.
migrateQuestProgress_save(w) ==
  LET t == loc[w].mt
      m == loc[w].mdoc
  IN  /\ pc[w] = "m_save"
      /\ IF VersionConflict(docs[t], m)
         THEN /\ MigrationDone(w, [loc[w] EXCEPT !.mdoc = NoMem])
              /\ UNCHANGED docs
         ELSE /\ docs' = [docs EXCEPT ![t] = SavedDocument(docs[t], m)]
              /\ MigrationNext(w, loc[w])
      /\ UNCHANGED <<quests, op, nEvents, claims, nOps, nChanges>>

\* --------------------------------------------------------- getUserProgress
getUserProgress(w, counted) ==
  Issue(w, [name |-> "getUserProgress"], "g_findDaily", EmptyLoc, counted)

getUserProgress_findDaily(w) ==
  /\ pc[w] = "g_findDaily"
  /\ loc' = [loc EXCEPT ![w].mem["daily"] = Loaded(docs["daily"])]
  /\ Goto(w, "g_findWeekly")
  /\ UNCHANGED <<quests, docs, op, ret, nEvents, claims, nOps, nChanges>>

getUserProgress_findWeekly(w) ==
  /\ pc[w] = "g_findWeekly"
  /\ loc' = [loc EXCEPT ![w].mem["weekly"] = Loaded(docs["weekly"])]
  /\ Goto(w, "init")
  /\ UNCHANGED <<quests, docs, op, ret, nEvents, claims, nOps, nChanges>>

getUserProgress_getDaily(w) ==
  /\ pc[w] = "g_dailyQuests"
  /\ loc' = [loc EXCEPT ![w].quest["daily"] = FirstQuest(quests, "daily")]
  /\ Goto(w, "g_weeklyQuests")
  /\ UNCHANGED <<quests, docs, op, ret, nEvents, claims, nOps, nChanges>>

\* With both documents in memory: the migration when both quest types have an
\* active quest, the empty progress otherwise.
AfterDocuments(w, l) ==
  IF l.quest["daily"].exists /\ l.quest["weekly"].exists
  THEN /\ loc' = [loc EXCEPT ![w] = l]
       /\ Goto(w, "m_daily")
       /\ UNCHANGED ret
  ELSE Finish(w, EmptyProgress)

\* The next missing document is created, daily first.
AfterQuests(w, l) ==
  IF ~l.mem["daily"].exists
  THEN /\ loc' = [loc EXCEPT ![w] = l]
       /\ Goto(w, "g_newDaily")
       /\ UNCHANGED ret
  ELSE IF ~l.mem["weekly"].exists
  THEN /\ loc' = [loc EXCEPT ![w] = l]
       /\ Goto(w, "g_newWeekly")
       /\ UNCHANGED ret
  ELSE AfterDocuments(w, l)

getUserProgress_getWeekly(w) ==
  /\ pc[w] = "g_weeklyQuests"
  /\ AfterQuests(w, [loc[w] EXCEPT !.quest["weekly"] = FirstQuest(quests, "weekly")])
  /\ UNCHANGED <<quests, docs, op, nEvents, claims, nOps, nChanges>>

\* new DailyQuestProgress({...}).save(): an insert, which the unique index
\* {companyId, userId, dateKey} rejects when the document exists by now.
getUserProgress_newDaily(w) ==
  LET d == NewProgress(loc[w].quest["daily"])
  IN  /\ pc[w] = "g_newDaily"
      /\ IF docs["daily"].exists
         THEN /\ Finish(w, EmptyProgress)
              /\ UNCHANGED docs
         ELSE /\ docs' = [docs EXCEPT !["daily"] = d]
              /\ AfterQuests(w, [loc[w] EXCEPT !.mem["daily"] = Loaded(d)])
      /\ UNCHANGED <<quests, op, nEvents, claims, nOps, nChanges>>

getUserProgress_newWeekly(w) ==
  LET d == NewProgress(loc[w].quest["weekly"])
  IN  /\ pc[w] = "g_newWeekly"
      /\ IF docs["weekly"].exists
         THEN /\ Finish(w, EmptyProgress)
              /\ UNCHANGED docs
         ELSE /\ docs' = [docs EXCEPT !["weekly"] = d]
              /\ AfterDocuments(w, [loc[w] EXCEPT !.mem["weekly"] = Loaded(d)])
      /\ UNCHANGED <<quests, op, nEvents, claims, nOps, nChanges>>

\* checkObjectiveCompletionDaily(dailyDoc), checkObjectiveCompletionWeekly(weeklyDoc)
\* on the documents loaded at the start, then dailyDoc.save().
getUserProgress_saveDaily(w) ==
  LET md == [loc[w].mem["daily"] EXCEPT !.cur = checkObjectiveCompletion(@)]
      mw == [loc[w].mem["weekly"] EXCEPT !.cur = checkObjectiveCompletion(@)]
  IN  /\ pc[w] = "g_saveDaily"
      /\ IF VersionConflict(docs["daily"], md)
         THEN /\ Finish(w, EmptyProgress)
              /\ UNCHANGED docs
         ELSE /\ docs' = [docs EXCEPT !["daily"] = SavedDocument(docs["daily"], md)]
              /\ loc' = [loc EXCEPT ![w].mem =
                           [x \in QT |-> IF x = "daily" THEN AfterSave(md) ELSE mw]]
              /\ Goto(w, "g_saveWeekly")
              /\ UNCHANGED ret
      /\ UNCHANGED <<quests, op, nEvents, claims, nOps, nChanges>>

\* weeklyDoc.save() and the response built from the two documents in memory.
getUserProgress_saveWeekly(w) ==
  LET mw == loc[w].mem["weekly"]
  IN  /\ pc[w] = "g_saveWeekly"
      /\ IF VersionConflict(docs["weekly"], mw)
         THEN /\ Finish(w, EmptyProgress)
              /\ UNCHANGED docs
         ELSE /\ docs' = [docs EXCEPT !["weekly"] = SavedDocument(docs["weekly"], mw)]
              /\ Finish(w, [kind |-> "getUserProgress",
                            daily |-> QuestView(loc[w].quest["daily"],
                                                loc[w].mem["daily"].cur),
                            weekly |-> QuestView(loc[w].quest["weekly"], mw.cur)])
      /\ UNCHANGED <<quests, op, nEvents, claims, nOps, nChanges>>

\* ------------------------------------------- QuestConfigService.updateQuest
\* One findOneAndUpdate.  sequential: the call runs between the operations of
\* the workers, never inside one.
updateQuest(questId, updates, maxChanges, sequential) ==
  /\ nChanges < maxChanges
  /\ sequential => \A w \in AllWorkers : pc[w] = "idle"
  /\ FirstQuestIndex(quests, questId, 1) # 0    \* otherwise it returns false
  /\ quests' = ApplyQuestUpdate(quests, questId, updates)
  /\ nChanges' = nChanges + 1
  /\ UNCHANGED <<docs, pc, op, loc, ret, nEvents, claims, nOps>>

\* ------------------------------------------------------------------ inputs
SetObjectives(objs) ==
  [hasObjectives |-> TRUE, objectives |-> objs, hasIsActive |-> FALSE, isActive |-> TRUE]

SetActive(b) ==
  [hasObjectives |-> FALSE, objectives |-> <<>>, hasIsActive |-> TRUE, isActive |-> b]

\* Only the first daily objective is kept.
OnlySuccess1 ==
  SetObjectives(<< Obj("daily_success1", 0, DefaultDailySuccess, DefaultDailySuccessXp, 1) >>)

\* A new daily objective {messageCount 10, xpReward 15} joins the default two.
AddSend10Again ==
  SetObjectives(<< Obj("daily_success1", 0, DefaultDailySuccess, DefaultDailySuccessXp, 1),
                   Obj("daily_send10", DefaultDailySend, 0, DefaultDailySendXp, 2),
                   Obj("daily_new", DefaultDailySend, 0, DefaultDailySendXp, 3) >>)

\* Order swapped, one threshold lowered, one raised, one reward changed.
Reshuffled ==
  SetObjectives(<< Obj("daily_send10", 2, 0, 15, 1), Obj("daily_success1", 0, 2, 20, 2) >>)

\* Both thresholds given and no order: the sanitiser switches daily_success1 to
\* the message metric; a new objective is added, daily_send10 is removed.
Switched ==
  SetObjectives(<< Obj("daily_success1", 2, 1, 10, 0), Obj("daily_new", 1, 0, 15, 0) >>)

\* An existing objective changes its reward and a new objective is added.
RewardAndNew ==
  SetObjectives(<< Obj("daily_success1", 0, 1, 20, 1), Obj("daily_new", 1, 0, 15, 2) >>)

WeeklyLowered ==
  SetObjectives(<< Obj("weekly_send100", 2, 0, 15, 1), Obj("weekly_success10", 0, 1, 50, 2) >>)

SeqUpdates ==
  { <<"daily_quest", Reshuffled>>, <<"daily_quest", Switched>>,
    <<"daily_quest", SetActive(FALSE)>>, <<"weekly_quest", WeeklyLowered>> }

\* An objective with no threshold joins the default two.
WithIdle ==
  SetObjectives(<< Obj("daily_success1", 0, DefaultDailySuccess, DefaultDailySuccessXp, 1),
                   Obj("daily_send10", DefaultDailySend, 0, DefaultDailySendXp, 2),
                   Obj("daily_idle", 0, 0, 5, 3) >>)

ScenarioUpdates ==
  { <<"daily_quest", OnlySuccess1>>, <<"daily_quest", AddSend10Again>>,
    <<"daily_quest", WithIdle>> }

ConcUpdates == { <<"daily_quest", RewardAndNew>>, <<"weekly_quest", WeeklyLowered>> }

\* The catalog changes next to interleaved migrations: also one that only adds
\* an objective and leaves the others as they are.
MigUpdates == ConcUpdates \cup { <<"daily_quest", AddSend10Again>> }

ObjectiveIds ==
  {"daily_success1", "daily_send10", "daily_new", "weekly_send100", "weekly_success10"}

SeqClaimIds == ObjectiveIds \cup {"no_such_objective"}
ConcClaimIds == {"daily_success1", "daily_new", "weekly_success10"}

\* ------------------------------------------------------- specifications
\* A worker issues a call.
Call(w, ids, maxM, maxS, counted) ==
  \/ \E b \in BOOLEAN : updateProgress(w, b, maxM, maxS, counted)
  \/ \E id \in ids : claimObjective(w, id, counted)
  \/ getUserProgress(w, counted)
  \/ \E t \in QT : markQuestSeen(w, t, counted)
  \/ migrateQuestProgress(w, counted)

\* A worker runs its call up to the next await.
Step(w) ==
  \/ ensureQuestsInitialized(w)
  \/ initializeDefaultQuests(w)
  \/ updateProgress_getQuests(w)
  \/ updateProgress_findOne(w)
  \/ updateProgress_upsert(w)
  \/ updateProgress_save(w)
  \/ claimObjective_getAllQuests(w)
  \/ claimObjective_findOne(w)
  \/ claimObjective_save(w)
  \/ markQuestSeen_findOne(w)
  \/ markQuestSeen_save(w)
  \/ migrateQuestProgress_getDaily(w)
  \/ migrateQuestProgress_getWeekly(w)
  \/ migrateQuestProgress_find(w)
  \/ migrateQuestProgress_save(w)
  \/ getUserProgress_findDaily(w)
  \/ getUserProgress_findWeekly(w)
  \/ getUserProgress_getDaily(w)
  \/ getUserProgress_getWeekly(w)
  \/ getUserProgress_newDaily(w)
  \/ getUserProgress_newWeekly(w)
  \/ getUserProgress_saveDaily(w)
  \/ getUserProgress_saveWeekly(w)
  \/ Return(w)

\* Sequential use: one caller, one call at a time, catalog changes between calls.
Next ==
  \/ Call("w1", SeqClaimIds, MaxMessages, MaxSuccess, FALSE)
  \/ Step("w1")
  \/ \E u \in SeqUpdates : updateQuest(u[1], u[2], MaxChanges, TRUE)

Spec == Init /\ [][Next]_vars

\* Sequential use with the counters running up to the scenario's totals.
ScenarioNext ==
  \/ Call("w1", SeqClaimIds, ScenarioMessages, ScenarioSuccess, FALSE)
  \/ Step("w1")
  \/ \E u \in ScenarioUpdates : updateQuest(u[1], u[2], MaxChanges, TRUE)

ScenarioSpec == Init /\ [][ScenarioNext]_vars

\* Concurrent use: two callers whose calls interleave at every await, and
\* catalog changes at any moment.
ConcNext ==
  \/ \E w \in AllWorkers : Call(w, ConcClaimIds, MaxMessages, MaxSuccess, TRUE)
  \/ \E w \in AllWorkers : Step(w)
  \/ \E u \in ConcUpdates : updateQuest(u[1], u[2], MaxConcChanges, FALSE)

ConcSpec == Init /\ [][ConcNext]_vars

\* Migrations next to each other: two callers read their progress and migrate,
\* their calls interleaved at every await, while the catalog changes.
MigStep(w) ==
  \/ ensureQuestsInitialized(w)
  \/ initializeDefaultQuests(w)
  \/ migrateQuestProgress_getDaily(w)
  \/ migrateQuestProgress_getWeekly(w)
  \/ migrateQuestProgress_find(w)
  \/ migrateQuestProgress_save(w)
  \/ getUserProgress_findDaily(w)
  \/ getUserProgress_findWeekly(w)
  \/ getUserProgress_getDaily(w)
  \/ getUserProgress_getWeekly(w)
  \/ getUserProgress_newDaily(w)
  \/ getUserProgress_newWeekly(w)
  \/ getUserProgress_saveDaily(w)
  \/ getUserProgress_saveWeekly(w)
  \/ Return(w)

MigNext ==
  \/ \E w \in AllWorkers : getUserProgress(w, TRUE)
  \/ \E w \in AllWorkers : migrateQuestProgress(w, TRUE)
  \/ \E w \in AllWorkers : MigStep(w)
  \/ \E u \in MigUpdates : updateQuest(u[1], u[2], MaxChanges, FALSE)

MigSpec == Init /\ [][MigNext]_vars

\* Events next to migrations: two callers record events and migrate, their
\* calls interleaved at every await, while the weekly catalog changes.
WeeklyNew ==
  SetObjectives(<< Obj("weekly_send100", 2, 0, 15, 1), Obj("weekly_success10", 0, 1, 50, 2),
                   Obj("weekly_new", 1, 0, 15, 3) >>)

EventUpdates == { <<"weekly_quest", WeeklyLowered>>, <<"weekly_quest", WeeklyNew>> }

EventStep(w) ==
  \/ ensureQuestsInitialized(w)
  \/ initializeDefaultQuests(w)
  \/ updateProgress_getQuests(w)
  \/ updateProgress_findOne(w)
  \/ updateProgress_upsert(w)
  \/ updateProgress_save(w)
  \/ migrateQuestProgress_getDaily(w)
  \/ migrateQuestProgress_getWeekly(w)
  \/ migrateQuestProgress_find(w)
  \/ migrateQuestProgress_save(w)
  \/ Return(w)

EventNext ==
  \/ \E w \in AllWorkers : \E b \in BOOLEAN :
       updateProgress(w, b, MaxMessages, MaxSuccess, TRUE)
  \/ \E w \in AllWorkers : migrateQuestProgress(w, TRUE)
  \/ \E w \in AllWorkers : EventStep(w)
  \/ \E u \in EventUpdates : updateQuest(u[1], u[2], MaxChanges, FALSE)

EventSpec == Init /\ [][EventNext]_vars

\* The period keys of two instants: each caller computes dateKey and weekKey of
\* its instant, as the public operations do in their first statements.
KeyDates ==
  UNION {(YearStart(y) - KeyWindow)..(YearStart(y) + KeyWindow - 1) : y \in {2025, 2026, 2027}}
    \cup ((YearStart(2025) + 26 * 7)..(YearStart(2025) + 26 * 7 + 2 * KeyWindow - 1))

KeyHours == {0, 23}

MachineOffsets == {-5, 0, 9}

KeyInit ==
  /\ quests = <<>>
  /\ docs = [t \in QT |-> NoDoc]
  /\ pc = [w \in AllWorkers |-> "k_date"]
  /\ \E offset \in MachineOffsets :
       op \in [AllWorkers -> [name : {"keys"}, date : KeyDates, hour : KeyHours,
                              offset : {offset}]]
  /\ loc = [w \in AllWorkers |-> EmptyLoc]
  /\ ret = [w \in AllWorkers |-> NoRet]
  /\ nEvents = 0
  /\ claims = [id \in {} |-> 0]
  /\ nOps = 0
  /\ nChanges = 0

\* const dateKey = this.getDateKey(now)
computeDateKey(w) ==
  /\ pc[w] = "k_date"
  /\ ret' = [ret EXCEPT ![w] =
               [kind |-> "keys",
                dateKey |-> getDateKey(op[w].date, op[w].hour,
                                       MachineOffset(op[w].offset, op[w].date, op[w].hour))]]
  /\ Goto(w, "k_week")
  /\ UNCHANGED <<quests, docs, op, loc, nEvents, claims, nOps, nChanges>>

\* const weekKey = this.getWeekKey(now), in either copy of the service.
computeWeekKey(w) ==
  /\ pc[w] = "k_week"
  /\ ret' = [ret EXCEPT ![w] =
               [kind |-> "keys", dateKey |-> ret[w].dateKey,
                weekKey |-> getWeekKey(op[w].date),
                weekKeyIso8601 |-> getWeekKeyIso8601(op[w].date, op[w].offset)]]
  /\ Goto(w, "returned")
  /\ UNCHANGED <<quests, docs, op, loc, nEvents, claims, nOps, nChanges>>

KeyNext == \E w \in AllWorkers : computeDateKey(w) \/ computeWeekKey(w)

KeySpec == KeyInit /\ [][KeyNext]_vars

\* ------------------------------------------------- updateQuest on any input
\* The objective lists a caller may pass to updateQuest: up to MaxObjectives
\* objectives, each with thresholds and reward from RawMetrics (both zero,
\* negative reward, both positive with either one greater or equal, negative
\* threshold) and an order from RawOrders (negative, missing or zero, with a
\* gap, duplicates when two objectives draw the same).
RawMetrics == { <<0, 0, 5>>, <<2, 0, -5>>, <<1, 2, 10>>, <<2, 2, 0>>, <<-1, 1, 10>> }

RawOrders == {-1, 0, 2, 5}

RawIds == <<"daily_success1", "daily_send10", "daily_new", "daily_idle">>

RawLists ==
  UNION { { [i \in 1..n |-> Obj(RawIds[i], m[i][1], m[i][2], m[i][3], o[i])] :
              m \in [1..n -> RawMetrics], o \in [1..n -> RawOrders] } :
          n \in 0..MaxObjectives }

\* The catalog holds the default quests; one call of updateQuest is about to run.
QuestInit ==
  /\ quests = defaultQuests
  /\ docs = [t \in QT |-> NoDoc]
  /\ pc = [w \in AllWorkers |-> IF w = "w1" THEN "q_update" ELSE "idle"]
  /\ \E raw \in RawLists :
       op = [w \in AllWorkers |->
               IF w = "w1"
               THEN [name |-> "updateQuest", questId |-> "daily_quest",
                     updates |-> SetObjectives(raw)]
               ELSE NoOp]
  /\ loc = [w \in AllWorkers |-> EmptyLoc]
  /\ ret = [w \in AllWorkers |-> NoRet]
  /\ nEvents = 0
  /\ claims = [id \in {} |-> 0]
  /\ nOps = 0
  /\ nChanges = 0

\* updateQuest(questId, updates) run to its return value.
updateQuest_call(w) ==
  /\ pc[w] = "q_update"
  /\ quests' = ApplyQuestUpdate(quests, op[w].questId, op[w].updates)
  /\ Finish(w, [kind |-> "updateQuest",
                value |-> FirstQuestIndex(quests, op[w].questId, 1) # 0])
  /\ UNCHANGED <<docs, op, nEvents, claims, nOps, nChanges>>

QuestNext == \E w \in AllWorkers : updateQuest_call(w)

QuestSpec == QuestInit /\ [][QuestNext]_vars

\* ------------------------------------------------------------- properties
NotFoundErrors ==
  {"Objective not found", "Quest progress not found", "Objective progress not found"}

\* The objective states with the id kept by the documents of the current period.
StatesIn(d, id) ==
  IF d.exists
  THEN {d.Objectives[i] :
          i \in {j \in 1..Len(d.Objectives) : d.Objectives[j].objectiveId = id}}
  ELSE {}

StatesOf(id) == UNION {StatesIn(docs[t], id) : t \in QT}

Returned(w, name) == pc[w] = "returned" /\ op[w].name = name

\* C1: an objective is claimed exactly once: of the claimObjective calls for one
\* objective id in one period, interleaved or not, at most one returns success.
C1_ClaimExactlyOnce == \A id \in DOMAIN claims : claims[id] <= 1

\* C2: no counter increment is lost: the totalMessages and totalSuccessMessages
\* of a period's document sum to at least the number of updateProgress calls
\* that have returned their documents.
C2_NoLostIncrement ==
  \A t \in QT : docs[t].exists =>
    docs[t].currentMessages + docs[t].currentSuccessMessages >= nEvents

\* C3: in every reachable state of every progress document, an objective state
\* that is claimed is completed.
C3_ClaimedImpliesCompleted ==
  \A t \in QT : docs[t].exists =>
    \A i \in 1..Len(docs[t].Objectives) :
      docs[t].Objectives[i].claimed => docs[t].Objectives[i].completed

C3_Witness ==
  \E i \in 1..(IF docs["daily"].exists THEN Len(docs["daily"].Objectives) ELSE 0) :
    /\ docs["daily"].Objectives[i].claimed
    /\ docs["daily"].v > 0
    /\ \E w \in AllWorkers : pc[w] \notin {"idle", "returned"}

\* C4: once the completed flag of an objective state is true in the persisted
\* document it is true in every later state of that document.
C4_CompletedNeverReverts ==
  [][\A t \in QT : docs[t].exists =>
       \A i \in 1..Len(docs[t].Objectives) :
         docs[t].Objectives[i].completed =>
           /\ i <= Len(docs'[t].Objectives)
           /\ docs'[t].Objectives[i].completed]_vars

\* C5: the persisted totalMessages and totalSuccessMessages of a document never
\* decrease from one state to the next.
C5_CountersMonotonic ==
  [][\A t \in QT : docs[t].exists =>
       /\ docs'[t].currentMessages >= docs[t].currentMessages
       /\ docs'[t].currentSuccessMessages >= docs[t].currentSuccessMessages]_vars

\* The step in which a claimObjective call returns.
ClaimReturns(w) ==
  /\ pc[w] \in {"c_quests", "c_find", "c_save"}
  /\ pc'[w] = "returned"

\* C6 as claimed: claimObjective fails with NotFound when no document of the
\* period holds an objective state with the id, with NotCompleted when the state
\* is not completed, with AlreadyClaimed when it is claimed; a failing call
\* returns xp 0 and leaves the documents unchanged.
C6_ClaimErrorsByDocument ==
  [][\A w \in AllWorkers : ClaimReturns(w) =>
       LET r == ret'[w]
           sts == StatesOf(op[w].objectiveId)
       IN  /\ sts = {} => (~r.success /\ r.error \in NotFoundErrors)
           /\ \A st \in sts :
                /\ ~st.completed =>
                     (~r.success /\ r.error = "Objective not completed yet")
                /\ (st.completed /\ st.claimed) =>
                     (~r.success /\ r.error = "Objective already claimed")
           /\ ~r.success => (r.xp = 0 /\ docs' = docs)]_vars

\* C6 amended: run without interleaving, claimObjective fails with NotFound when
\* no quest of the catalog holds the objective id, or the current period has no
\* document of that quest's type, or that document has no objective state with
\* the id; else with NotCompleted when the state is not completed; else with
\* AlreadyClaimed when it is claimed; else it succeeds.  A failing call returns
\* xp 0 and leaves the documents unchanged.
C6_ClaimErrorsByCatalogThenDocument ==
  [][\A w \in AllWorkers : ClaimReturns(w) =>
       LET r == ret'[w]
           id == op[w].objectiveId
           inCatalog == {q \in 1..Len(quests) :
                           \E k \in 1..Len(quests[q].objectives) :
                             quests[q].objectives[k].id = id}
           types == {quests[q].questType : q \in inCatalog}
           t == IF "daily" \in types THEN "daily" ELSE "weekly"
           sts == StatesIn(docs[t], id)
       IN  /\ IF inCatalog = {} \/ sts = {}
              THEN ~r.success /\ r.error \in NotFoundErrors
              ELSE \A st \in sts :
                     IF ~st.completed
                     THEN ~r.success /\ r.error = "Objective not completed yet"
                     ELSE IF st.claimed
                     THEN ~r.success /\ r.error = "Objective already claimed"
                     ELSE r.success
           /\ ~r.success => (r.xp = 0 /\ docs' = docs)]_vars

\* A claim of an objective that the catalog no longer holds, whose state in the
\* document is not completed, has returned not found.
C6_Witness ==
  \E w \in AllWorkers :
    /\ Returned(w, "claimObjective")
    /\ ~ret[w].success
    /\ ret[w].error = "Objective not found"
    /\ \E st \in StatesOf(op[w].objectiveId) : ~st.completed

\* C7: a successful claimObjective returns the xpReward recorded in the
\* objective state of the progress document.
C7_XpFromDocument ==
  \A w \in AllWorkers :
    (Returned(w, "claimObjective") /\ ret[w].success) =>
      \A st \in StatesOf(op[w].objectiveId) : ret[w].xp = st.xpReward

\* The catalog holds one daily objective {successThreshold 1, xpReward 10}.
ScenarioCatalog ==
  /\ FirstQuest(quests, "daily").exists
  /\ FirstQuest(quests, "daily").objectives =
       << Obj("daily_success1", 0, DefaultDailySuccess, DefaultDailySuccessXp, 1) >>

\* C8: with that catalog, from the first success event on the objective is
\* completed; a claimObjective call after the events succeeds with xp 10 the
\* first time and returns AlreadyClaimed every other time.
C8_SuccessScenario ==
  ScenarioCatalog =>
    /\ (docs["daily"].exists /\ docs["daily"].currentSuccessMessages >= 1) =>
         \A st \in StatesOf("daily_success1") :
           (st.messageCount = 0 /\ st.successMessageCount = 1) => st.completed
    /\ \A w \in AllWorkers :
         ( /\ Returned(w, "claimObjective")
           /\ op[w].objectiveId = "daily_success1"
           /\ docs["daily"].exists
           /\ docs["daily"].currentSuccessMessages >= 1 ) =>
           /\ ClaimCount("daily_success1") = 1
           /\ IF ret[w].success
              THEN ret[w].xp = 10
              ELSE ret[w].error = "Objective already claimed"

\* Three success events, one successful claim, and a second claim refused.
C8_Witness ==
  /\ ScenarioCatalog
  /\ docs["daily"].exists
  /\ docs["daily"].currentSuccessMessages = 3
  /\ docs["daily"].currentMessages = 0
  /\ Len(docs["daily"].Objectives) = 1
  /\ nEvents = 3
  /\ ClaimCount("daily_success1") = 1
  /\ Returned("w1", "claimObjective")
  /\ op["w1"].objectiveId = "daily_success1"
  /\ ~ret["w1"].success
  /\ ret["w1"].error = "Objective already claimed"

\* C9: when the catalog has gained the daily objective {messageThreshold 10,
\* xpReward 15} and the daily document stands at totalMessages = 12, then after
\* migrateQuestProgress the document holds an objective state for it with
\* completed = true and claimed = false.
C9_NewObjectiveCompleted ==
  \A w \in AllWorkers :
    ( /\ Returned(w, "migrateQuestProgress")
      /\ FirstQuest(quests, "daily").exists
      /\ FindById(FirstQuest(quests, "daily").objectives, "daily_new").found
      /\ docs["daily"].exists
      /\ docs["daily"].currentMessages = 12 ) =>
      \E st \in StatesOf("daily_new") :
        /\ st.messageCount = 10
        /\ st.xpReward = 15
        /\ st.completed
        /\ ~st.claimed

\* C10: a migration run leaves the completed and claimed flags of every
\* objective state that the document held before it as they were.
C10_MigrationPreservesFlags ==
  [][\A w \in AllWorkers : pc[w] = "m_save" =>
       LET t == loc[w].mt
       IN  \A i \in 1..Len(docs[t].Objectives) :
             /\ i <= Len(docs'[t].Objectives)
             /\ docs'[t].Objectives[i].objectiveId = docs[t].Objectives[i].objectiveId
             /\ docs'[t].Objectives[i].completed = docs[t].Objectives[i].completed
             /\ docs'[t].Objectives[i].claimed = docs[t].Objectives[i].claimed]_vars

\* A migration has raised the threshold of a completed and claimed objective
\* state above the counter.
C10_Witness ==
  /\ Returned("w1", "migrateQuestProgress")
  /\ docs["daily"].exists
  /\ \E st \in StatesOf("daily_success1") :
       /\ st.completed
       /\ st.claimed
       /\ st.successMessageCount > docs["daily"].currentSuccessMessages

\* The step in which worker w saves a migrated document.
MigrationSaves(w) == pc[w] = "m_save" /\ pc'[w] # "m_save"

\* The step in which the public migrateQuestProgress call of worker w returns.
MigrationReturns(w) ==
  /\ op[w].name = "migrateQuestProgress"
  /\ pc[w] \in {"m_weekly", "m_find", "m_save"}
  /\ pc'[w] = "returned"

\* The objective state is the catalog objective's snapshot, not completed and
\* not claimed.
FreshStateOf(st, c) ==
  /\ st.objectiveId = c.id
  /\ st.messageCount = c.messageCount
  /\ st.successMessageCount = c.successMessageCount
  /\ st.xpReward = c.xpReward
  /\ st.order = c.order
  /\ ~st.completed
  /\ ~st.claimed

\* C11: when migrateQuestProgress returns, the document of each type holds an
\* objective state for every objective id of the first active quest of that
\* type; and each objective state that a migration save appends is the catalog
\* objective's snapshot with completed = false and claimed = false.
C11_MigrationAddsMissing ==
  [][\A w \in AllWorkers :
       /\ MigrationReturns(w) =>
            \A t \in QT :
              (docs'[t].exists /\ FirstQuest(quests, t).exists) =>
                \A k \in 1..Len(FirstQuest(quests, t).objectives) :
                  StatesIn(docs'[t], FirstQuest(quests, t).objectives[k].id) # {}
       /\ MigrationSaves(w) =>
            LET t == loc[w].mt
                q == FirstQuest(quests, t)
            IN  \A i \in (Len(docs[t].Objectives) + 1)..Len(docs'[t].Objectives) :
                  LET f == FindById(q.objectives, docs'[t].Objectives[i].objectiveId)
                  IN  f.found /\ FreshStateOf(docs'[t].Objectives[i], f.obj)]_vars

\* A migration has appended daily_new to a document seeded with the two default
\* objectives and whose message total had reached daily_new's threshold.
C11_Witness ==
  /\ Returned("w1", "migrateQuestProgress")
  /\ docs["daily"].exists
  /\ Len(docs["daily"].Objectives) = 3
  /\ docs["daily"].Objectives[2].objectiveId = "daily_send10"
  /\ docs["daily"].Objectives[3].objectiveId = "daily_new"
  /\ docs["daily"].currentMessages >= docs["daily"].Objectives[3].messageCount
  /\ ~docs["daily"].Objectives[3].completed

\* C12: when migrateQuestProgress returns, every objective state whose id the
\* first active quest of its type holds has that objective's messageCount,
\* successMessageCount, xpReward and order.
C12_MigrationRefreshesValues ==
  [][\A w \in AllWorkers : MigrationReturns(w) =>
       \A t \in QT :
         (docs'[t].exists /\ FirstQuest(quests, t).exists) =>
           \A i \in 1..Len(docs'[t].Objectives) :
             LET st == docs'[t].Objectives[i]
                 f == FindById(FirstQuest(quests, t).objectives, st.objectiveId)
             IN  f.found =>
                   /\ st.messageCount = f.obj.messageCount
                   /\ st.successMessageCount = f.obj.successMessageCount
                   /\ st.xpReward = f.obj.xpReward
                   /\ st.order = f.obj.order]_vars

\* A migration has moved daily_success1, seeded first with the default values,
\* to the catalog's new threshold, reward and order.
C12_Witness ==
  /\ Returned("w1", "migrateQuestProgress")
  /\ docs["daily"].exists
  /\ Len(docs["daily"].Objectives) >= 2
  /\ docs["daily"].Objectives[1].objectiveId = "daily_success1"
  /\ docs["daily"].Objectives[1].successMessageCount = 2
  /\ docs["daily"].Objectives[1].xpReward = 20
  /\ docs["daily"].Objectives[1].order = 2
  /\ docs["daily"].Objectives[2].order = 1

\* C13: a migration save removes no objective state, and leaves an objective
\* state whose id the catalog quest no longer holds as it was.
C13_MigrationKeepsOrphans ==
  [][\A w \in AllWorkers : MigrationSaves(w) =>
       LET t == loc[w].mt
           q == loc[w].mquest[t]
       IN  /\ Len(docs'[t].Objectives) >= Len(docs[t].Objectives)
           /\ \A i \in 1..Len(docs[t].Objectives) :
                /\ docs'[t].Objectives[i].objectiveId = docs[t].Objectives[i].objectiveId
                /\ ~FindById(q.objectives, docs[t].Objectives[i].objectiveId).found =>
                     docs'[t].Objectives[i] = docs[t].Objectives[i]]_vars

\* A migration has run on a document that holds daily_send10, completed, while
\* the catalog quest holds daily_success1 and daily_new only.
C13_Witness ==
  /\ Returned("w1", "migrateQuestProgress")
  /\ FirstQuest(quests, "daily").exists
  /\ ~FindById(FirstQuest(quests, "daily").objectives, "daily_send10").found
  /\ StatesOf("daily_new") # {}
  /\ \E st \in StatesOf("daily_send10") : st.completed

\* C14: when the save of the daily document fails in a migration and the weekly
\* document needs reconciliation with the weekly quest the migration read, the
\* migration goes on to the weekly collection.
C14_MigrationBestEffort ==
  [][\A w \in AllWorkers :
       ( /\ MigrationSaves(w)
         /\ loc[w].mt = "daily"
         /\ VersionConflict(docs["daily"], loc[w].mdoc)
         /\ docs["weekly"].exists
         /\ MigrateDocument(docs["weekly"], loc[w].mquest["weekly"]) # docs["weekly"] ) =>
         /\ pc'[w] = "m_find"
         /\ loc'[w].mt = "weekly"]_vars

\* C15: a migration save leaves currentMessages, currentSuccessMessages and
\* QuestSeen of the document it saves as they were, and the document of the
\* other period untouched.  (The document of a period is docs[t]: its period
\* key is its place in docs, which no action reassigns.)
C15_MigrationKeepsTotals ==
  [][\A w \in AllWorkers : MigrationSaves(w) =>
       LET t == loc[w].mt
       IN  /\ docs'[t].exists
           /\ docs'[t].currentMessages = docs[t].currentMessages
           /\ docs'[t].currentSuccessMessages = docs[t].currentSuccessMessages
           /\ docs'[t].QuestSeen = docs[t].QuestSeen
           /\ \A x \in QT \ {t} : docs'[x] = docs[x]]_vars

\* A migration has changed the objective states of a document that counts
\* messages and was marked seen.
C15_Witness ==
  /\ Returned("w1", "migrateQuestProgress")
  /\ docs["daily"].exists
  /\ docs["daily"].currentMessages > 0
  /\ docs["daily"].currentSuccessMessages > 0
  /\ docs["daily"].QuestSeen
  /\ Len(docs["daily"].Objectives) = 3
  /\ docs["daily"].Objectives[3].objectiveId = "daily_new"
  /\ docs["daily"].Objectives[1].messageCount = 2

\* The documents the completion check is about to run on: the document of
\* updateDailyProgress / updateWeeklyProgress with its total incremented, and the
\* two documents of getUserProgress.
CheckInputs ==
  {IncrementTotals(loc[w].mem[loc[w].t].cur, op[w].isSuccessMessage) :
     w \in {x \in AllWorkers : pc[x] = "u_save"}}
  \cup {loc[w].mem[t].cur : w \in {x \in AllWorkers : pc[x] = "g_saveDaily"}, t \in QT}

\* C16: the completion check completes an objective that is not completed
\* exactly when its messageCount is positive and currentMessages has reached
\* it, or its messageCount is zero, its successMessageCount positive and
\* currentSuccessMessages has reached it; whatever the objective's order.
C16_CompletionByThresholds ==
  \A p \in CheckInputs :
    LET r == checkObjectiveCompletion(p)
    IN  /\ Len(r.Objectives) = Len(p.Objectives)
        /\ \A i \in 1..Len(p.Objectives) :
             LET o == p.Objectives[i]
             IN  ~o.completed =>
                   ( r.Objectives[i].completed <=>
                       \/ o.messageCount > 0 /\ p.currentMessages >= o.messageCount
                       \/ /\ o.messageCount = 0
                          /\ o.successMessageCount > 0
                          /\ p.currentSuccessMessages >= o.successMessageCount )

\* The check is about to run on a document whose second objective reaches its
\* message threshold now, while its third objective has no threshold.
C16_Witness ==
  \E p \in CheckInputs :
    /\ Len(p.Objectives) = 3
    /\ p.Objectives[2].messageCount = 10
    /\ ~p.Objectives[2].completed
    /\ p.currentMessages = 10
    /\ p.Objectives[3].messageCount = 0
    /\ p.Objectives[3].successMessageCount = 0
    /\ ~p.Objectives[3].completed
    /\ p.currentSuccessMessages > 0

\* The step in which worker w saves the document of type t after the
\* completion check.
CheckSaves(w, t) ==
  \/ pc[w] = "u_save" /\ loc[w].t = t /\ pc'[w] # "u_save"
  \/ pc[w] = "g_saveDaily" /\ t = "daily" /\ pc'[w] # "g_saveDaily"
  \/ pc[w] = "g_saveWeekly" /\ t = "weekly" /\ pc'[w] # "g_saveWeekly"

\* C17: a save after the completion check leaves QuestSeen false when it turns
\* at least one objective state from not completed to completed, and leaves
\* QuestSeen as it was when it turns none.
C17_UnseenOnCompletion ==
  [][\A w \in AllWorkers : \A t \in QT :
       (CheckSaves(w, t) /\ docs[t].exists) =>
         IF \E i \in 1..Len(docs[t].Objectives) :
              ~docs[t].Objectives[i].completed /\ docs'[t].Objectives[i].completed
         THEN ~docs'[t].QuestSeen
         ELSE docs'[t].QuestSeen = docs[t].QuestSeen]_vars

\* An updateProgress call has completed a daily objective of a document that
\* was marked seen, and no weekly one.
C17_Witness ==
  /\ Returned("w1", "updateProgress")
  /\ ~ret["w1"].empty
  /\ ~ret["w1"].dailyProgress.QuestSeen
  /\ ret["w1"].weeklyProgress.QuestSeen
  /\ ret["w1"].dailyProgress.currentSuccessMessages = 1
  /\ ret["w1"].dailyProgress.currentMessages = 0
  /\ \E i \in 1..Len(ret["w1"].dailyProgress.Objectives) :
       ret["w1"].dailyProgress.Objectives[i].completed

\* C18: the completion check run on the result of the completion check changes
\* nothing, neither the completed flags nor QuestSeen; and so when markQuestSeen
\* has set QuestSeen in between.
C18_CheckIdempotent ==
  \A p \in CheckInputs \cup {docs[t] : t \in {x \in QT : docs[x].exists}} :
    LET once == checkObjectiveCompletion(p)
        seen == [once EXCEPT !.QuestSeen = TRUE]
    IN  /\ checkObjectiveCompletion(once) = once
        /\ checkObjectiveCompletion(seen) = seen

\* The check is about to run on a document marked seen in which it completes an
\* objective while another one is completed already.
C18_Witness ==
  \E p \in CheckInputs :
    /\ p.QuestSeen
    /\ \E i \in 1..Len(p.Objectives) : p.Objectives[i].completed
    /\ \E i \in 1..Len(p.Objectives) :
         /\ ~p.Objectives[i].completed
         /\ checkObjectiveCompletion(p).Objectives[i].completed

\* C19: run alone, updateProgress changes an existing document only in the save
\* of updateDailyProgress and in the save of updateWeeklyProgress; each of the
\* two adds 1 to currentMessages when isSuccessMessage is false and to
\* currentSuccessMessages when it is true, and leaves the other total, the
\* claimed flags and the other document as they were; the call goes from the
\* daily save to the weekly document and returns both after the weekly save.
C19_OneIncrementPerEvent ==
  [][\A w \in AllWorkers :
       (op[w].name = "updateProgress" /\ pc'[w] # pc[w]) =>
         IF pc[w] = "u_save"
         THEN LET t == loc[w].t
                  b == op[w].isSuccessMessage
              IN  /\ docs[t].exists
                  /\ docs'[t].currentMessages =
                       docs[t].currentMessages + (IF b THEN 0 ELSE 1)
                  /\ docs'[t].currentSuccessMessages =
                       docs[t].currentSuccessMessages + (IF b THEN 1 ELSE 0)
                  /\ Len(docs'[t].Objectives) = Len(docs[t].Objectives)
                  /\ \A i \in 1..Len(docs[t].Objectives) :
                       docs'[t].Objectives[i].claimed = docs[t].Objectives[i].claimed
                  /\ \A x \in QT \ {t} : docs'[x] = docs[x]
                  /\ IF t = "daily"
                     THEN pc'[w] = "init" /\ loc'[w].t = "weekly"
                     ELSE /\ pc'[w] = "returned"
                          /\ ~ret'[w].empty
                          /\ ret'[w].dailyProgress = docs'["daily"]
                          /\ ret'[w].weeklyProgress = docs'["weekly"]
         ELSE \A t \in QT : docs[t].exists => docs'[t] = docs[t]]_vars

\* A message event has been recorded after a success event and a claim: both
\* documents count one of each, and the claimed flag stands.
C19_Witness ==
  /\ Returned("w1", "updateProgress")
  /\ ~op["w1"].isSuccessMessage
  /\ \A t \in QT :
       /\ docs[t].exists
       /\ docs[t].currentMessages = 1
       /\ docs[t].currentSuccessMessages = 1
  /\ \E st \in StatesOf("daily_success1") : st.claimed

\* The document is the one seeded from quest q: totals 0, QuestSeen true, and
\* the objectives of q in their order, not completed and not claimed.
SeededFrom(d, q) ==
  /\ d.exists
  /\ d.currentMessages = 0
  /\ d.currentSuccessMessages = 0
  /\ d.QuestSeen
  /\ Len(d.Objectives) = (IF q.exists THEN Len(q.objectives) ELSE 0)
  /\ \A i \in 1..Len(d.Objectives) : FreshStateOf(d.Objectives[i], q.objectives[i])

\* C20: a step of updateProgress or getUserProgress that creates the document
\* of a period creates it seeded from the first active quest of its type; and
\* no step of the two resets a document that exists: the totals do not
\* decrease, and every objective state stays, with its completed and claimed
\* flags not cleared.
C20_SeededOnce ==
  [][\A w \in AllWorkers :
       (op[w].name \in {"updateProgress", "getUserProgress"} /\ pc'[w] # pc[w]) =>
         \A t \in QT :
           IF ~docs[t].exists
           THEN docs'[t].exists =>
                  /\ pc[w] \in {"u_upsert", "g_newDaily", "g_newWeekly"}
                  /\ SeededFrom(docs'[t], FirstQuest(quests, t))
           ELSE /\ docs'[t].exists
                /\ docs'[t].currentMessages >= docs[t].currentMessages
                /\ docs'[t].currentSuccessMessages >= docs[t].currentSuccessMessages
                /\ Len(docs'[t].Objectives) >= Len(docs[t].Objectives)
                /\ \A i \in 1..Len(docs[t].Objectives) :
                     /\ docs'[t].Objectives[i].objectiveId =
                          docs[t].Objectives[i].objectiveId
                     /\ docs[t].Objectives[i].completed =>
                          docs'[t].Objectives[i].completed
                     /\ docs[t].Objectives[i].claimed =>
                          docs'[t].Objectives[i].claimed]_vars

\* updateProgress has just created the daily document from a catalog whose
\* daily quest was reordered and re-valued.
C20_Witness ==
  /\ pc["w1"] = "u_save"
  /\ loc["w1"].t = "daily"
  /\ SeededFrom(docs["daily"], FirstQuest(quests, "daily"))
  /\ Len(docs["daily"].Objectives) = 2
  /\ docs["daily"].Objectives[1].objectiveId = "daily_send10"
  /\ docs["daily"].Objectives[1].messageCount = 2
  /\ docs["daily"].Objectives[2].xpReward = 20
  /\ ~docs["weekly"].exists

\* C21: run alone, markQuestSeen of a quest type whose document does not exist
\* returns false and changes no document; else it stores QuestSeen = true in
\* that document, changes nothing else in it, leaves the other document alone
\* and returns true.
C21_MarkQuestSeen ==
  [][\A w \in AllWorkers :
       (op[w].name = "markQuestSeen" /\ pc'[w] # pc[w]) =>
         LET t == op[w].questType
         IN  IF pc[w] = "s_find"
             THEN /\ docs' = docs
                  /\ IF docs[t].exists
                     THEN pc'[w] = "s_save"
                     ELSE pc'[w] = "returned" /\ ret'[w].value = FALSE
             ELSE IF pc[w] = "s_save"
             THEN /\ docs[t].exists
                  /\ docs' = [docs EXCEPT ![t].QuestSeen = TRUE]
                  /\ pc'[w] = "returned"
                  /\ ret'[w].value = TRUE
             ELSE docs' = docs]_vars

\* markQuestSeen has returned true on a daily document with a completed,
\* unclaimed objective, while there is a weekly document it did not mark.
C21_Witness ==
  /\ Returned("w1", "markQuestSeen")
  /\ op["w1"].questType = "daily"
  /\ ret["w1"].value
  /\ docs["daily"].QuestSeen
  /\ \E i \in 1..Len(docs["daily"].Objectives) :
       docs["daily"].Objectives[i].completed /\ ~docs["daily"].Objectives[i].claimed
  /\ docs["weekly"].exists
  /\ ~docs["weekly"].QuestSeen

\* The view of quest type t in the value getUserProgress returned to w.
ViewOf(w, t) == IF t = "daily" THEN ret[w].daily ELSE ret[w].weekly

\* C22: in the value getUserProgress returns, each objective's target is the
\* catalog objective's messageCount when that is positive and its
\* successMessageCount otherwise, and its progress is the smaller of the target
\* and the document's total for that metric; so 0 <= progress <= target.
C22_ViewProgress ==
  \A w \in AllWorkers : Returned(w, "getUserProgress") =>
    \A t \in QT :
      \A i \in 1..Len(ViewOf(w, t).objectives) :
        LET o == ViewOf(w, t).objectives[i]
            q == FirstQuest(quests, t)
            f == FindById(q.objectives, o.id)
            current == IF f.obj.messageCount > 0 THEN docs[t].currentMessages
                       ELSE docs[t].currentSuccessMessages
        IN  /\ q.exists
            /\ f.found
            /\ docs[t].exists
            /\ o.target = (IF f.obj.messageCount > 0 THEN f.obj.messageCount
                           ELSE f.obj.successMessageCount)
            /\ o.progress = Min(current, o.target)
            /\ 0 <= o.progress
            /\ o.progress <= o.target

\* getUserProgress has returned a daily view in which one objective's total is
\* past its target, one is short of it and one has no threshold.
C22_Witness ==
  /\ Returned("w1", "getUserProgress")
  /\ Len(ret["w1"].daily.objectives) = 3
  /\ docs["daily"].currentSuccessMessages > ret["w1"].daily.objectives[1].target
  /\ ret["w1"].daily.objectives[1].progress = ret["w1"].daily.objectives[1].target
  /\ ret["w1"].daily.objectives[2].progress > 0
  /\ ret["w1"].daily.objectives[2].progress < ret["w1"].daily.objectives[2].target
  /\ ret["w1"].daily.objectives[3].target = 0

\* C23: the value getUserProgress returns lists, for each quest type that has
\* an active quest, exactly the objectives of the first active quest of that
\* type: their ids, targets, rewards and orders, in order.
C23_ViewReflectsCatalog ==
  \A w \in AllWorkers : Returned(w, "getUserProgress") =>
    \A t \in QT :
      LET q == FirstQuest(quests, t)
          v == ViewOf(w, t).objectives
      IN  q.exists =>
            /\ Len(v) = Len(q.objectives)
            /\ \A i \in 1..Len(v) :
                 /\ v[i].id = q.objectives[i].id
                 /\ v[i].target = (IF q.objectives[i].messageCount > 0
                                   THEN q.objectives[i].messageCount
                                   ELSE q.objectives[i].successMessageCount)
                 /\ v[i].xp = q.objectives[i].xpReward
                 /\ v[i].order = q.objectives[i].order

\* The ISO-8601 week of a day: the year of the Thursday of its Monday-to-Sunday
\* week, and that Thursday's week of the year.
IsoWeek(n) ==
  LET thursday == n - (n % 7) + 3
      year == getFullYear(thursday)
  IN  << year, ((thursday - YearStart(year)) \div 7) + 1 >>

KeysOf(w) == pc[w] = "returned" /\ op[w].name = "keys"

\* C24: getWeekKey returns the ISO-8601 week of the New York local date, year
\* of the week's Thursday and week number 1..53, in at least one of the two
\* copies of the service.
C24_IsoWeekKey ==
  \A w \in AllWorkers : KeysOf(w) =>
    \/ ret[w].weekKey = IsoWeek(op[w].date)
    \/ ret[w].weekKeyIso8601 = IsoWeek(op[w].date)

\* C25: two local dates get the same week key exactly when they lie in the
\* same Monday-to-Sunday week, in at least one of the two copies of the service.
C25_SameWeekSameKey ==
  \A w1, w2 \in AllWorkers : (KeysOf(w1) /\ KeysOf(w2)) =>
    LET sameWeek == op[w1].date \div 7 = op[w2].date \div 7
    IN  \/ (ret[w1].weekKey = ret[w2].weekKey) <=> sameWeek
        \/ (ret[w1].weekKeyIso8601 = ret[w2].weekKeyIso8601) <=> sameWeek

\* C26: two instants get the same date key exactly when they lie in the same
\* New York local day, whatever the offset of the machine's clock.
C26_SameDaySameKey ==
  \A w1, w2 \in AllWorkers :
    (pc[w1] # "k_date" /\ pc[w2] # "k_date" /\ op[w1].name = "keys"
       /\ op[w2].name = "keys") =>
      ((ret[w1].dateKey = ret[w2].dateKey) <=> (op[w1].date = op[w2].date))

\* The step of worker w that creates the document of period t: the upsert of
\* updateDailyProgress / updateWeeklyProgress, the insert of getUserProgress.
CreatesDocument(w, t) ==
  /\ pc'[w] # pc[w]
  /\ \/ pc[w] = "u_upsert" /\ loc[w].t = t
     \/ pc[w] = "g_newDaily" /\ t = "daily"
     \/ pc[w] = "g_newWeekly" /\ t = "weekly"

\* C27: there is one document per period key (docs holds one document for each
\* key, as the unique index allows), and an operation that reaches its creation
\* step when another operation has already created the document of that period
\* goes on with the existing document: it does not end there.
C27_CreationRaceCompletes ==
  [][\A w \in AllWorkers : \A t \in QT :
       (CreatesDocument(w, t) /\ docs[t].exists) =>
         /\ pc'[w] # "returned"
         /\ docs'[t] = docs[t]]_vars


\* The step of worker w is a store write that the store rejects: a save with a
\* stale version, or the insert of a document that already exists.
StoreWriteFails(w) ==
  /\ pc'[w] # pc[w]
  /\ \/ /\ pc[w] = "u_save"
        /\ VersionConflict(docs[loc[w].t],
             UpdatedProgress(loc[w].mem[loc[w].t], op[w].isSuccessMessage))
     \/ /\ pc[w] = "s_save"
        /\ VersionConflict(docs[loc[w].t], loc[w].mem[loc[w].t])
     \/ /\ pc[w] = "m_save"
        /\ op[w].name = "migrateQuestProgress"
        /\ VersionConflict(docs[loc[w].mt], loc[w].mdoc)
     \/ /\ pc[w] = "g_newDaily"
        /\ docs["daily"].exists
     \/ /\ pc[w] = "g_newWeekly"
        /\ docs["weekly"].exists
     \/ /\ pc[w] = "g_saveDaily"
        /\ VersionConflict(docs["daily"],
             [loc[w].mem["daily"] EXCEPT !.cur = checkObjectiveCompletion(@)])
     \/ /\ pc[w] = "g_saveWeekly"
        /\ VersionConflict(docs["weekly"], loc[w].mem["weekly"])

\* The values an operation returns without any failure when there is nothing
\* to report: no active quest of one type (getUserProgress), no document
\* (markQuestSeen), nothing to migrate (migrateQuestProgress).
EmptyStateReturns(name) ==
  IF name = "getUserProgress" THEN {EmptyProgress}
  ELSE IF name = "markQuestSeen" THEN {[kind |-> "markQuestSeen", value |-> FALSE]}
  ELSE IF name = "migrateQuestProgress" THEN {[kind |-> "migrateQuestProgress"]}
  ELSE {}

\* C28: when a store write fails inside updateProgress, getUserProgress,
\* markQuestSeen or migrateQuestProgress, the operation returns a value that
\* differs from every value it returns on a legitimate empty state.
C28_FailureDistinguishable ==
  [][\A w \in AllWorkers :
       StoreWriteFails(w) =>
         /\ pc'[w] = "returned"
         /\ ret'[w] \notin EmptyStateReturns(op[w].name)]_vars


\* The objectives stored for the quest that the returned updateQuest of w updated.
StoredObjectives(w) ==
  quests[FirstQuestIndex(quests, op[w].questId, 1)].objectives

\* C29: every objective stored by updateQuest has exactly one of messageCount
\* and successMessageCount greater than 0, the other 0, and xpReward >= 0.
C29_OneActiveMetric ==
  \A w \in AllWorkers :
    Returned(w, "updateQuest") =>
      \A i \in 1..Len(StoredObjectives(w)) :
        LET o == StoredObjectives(w)[i]
        IN  /\ \/ o.messageCount > 0 /\ o.successMessageCount = 0
               \/ o.messageCount = 0 /\ o.successMessageCount > 0
            /\ o.xpReward >= 0

\* C30: after updateQuest with a list of n objectives, n objectives are stored,
\* the i-th stored objective has order i, and they are the objectives of the
\* input in the order of their sanitised order values.
C30_DenseOrder ==
  \A w \in AllWorkers :
    Returned(w, "updateQuest") =>
      LET raw == op[w].updates.objectives
          stored == StoredObjectives(w)
          sane == SortByOrder([i \in 1..Len(raw) |-> SanitizeObjective(raw[i], i - 1)])
      IN  /\ Len(stored) = Len(raw)
          /\ \A i \in 1..Len(stored) :
               /\ stored[i].order = i
               /\ stored[i].id = sane[i].id
          /\ \A i, j \in 1..Len(sane) : i < j => sane[i].order <= sane[j].order

\* C30 witness: an update of MaxObjectives objectives with a duplicate order, a
\* missing or negative order and an order beyond the length has returned.
C30_Witness ==
  \E w \in AllWorkers :
    /\ Returned(w, "updateQuest")
    /\ LET raw == op[w].updates.objectives
       IN  /\ Len(raw) = MaxObjectives
           /\ \E i, j \in 1..Len(raw) : i # j /\ raw[i].order = raw[j].order
           /\ \E i \in 1..Len(raw) : raw[i].order <= 0
           /\ \E i \in 1..Len(raw) : raw[i].order > Len(raw)
           /\ \A i \in 1..Len(raw) : StoredObjectives(w)[i].order = i


\* C31: in every reachable state, no progress document holds two objective
\* states with the same objectiveId, whatever the interleaving of migrations.
C31_UniqueObjectiveIds ==
  \A t \in QT :
    docs[t].exists =>
      \A i, j \in 1..Len(docs[t].Objectives) :
        docs[t].Objectives[i].objectiveId = docs[t].Objectives[j].objectiveId => i = j


\* The objective state's active threshold is positive and reached by the
\* counter of its metric in document d.
ThresholdReached(d, st) ==
  IF st.messageCount > 0 THEN d.currentMessages >= st.messageCount
  ELSE st.successMessageCount > 0 /\ d.currentSuccessMessages >= st.successMessageCount

\* C32: when updateProgress has returned its two documents (calls not
\* interleaved), every objective state of the stored daily and weekly documents
\* whose active threshold is positive and reached is completed.
C32_CompletedAfterUpdate ==
  \A w \in AllWorkers :
    (Returned(w, "updateProgress") /\ ~ret[w].empty) =>
      \A t \in QT :
        \A i \in 1..Len(docs[t].Objectives) :
          ThresholdReached(docs[t], docs[t].Objectives[i]) =>
            docs[t].Objectives[i].completed

\* C32 witness: updateProgress has returned and the daily document holds a
\* completed objective a migration added (daily_new) and a completed objective
\* whose stored threshold is below the default the document was seeded with.
C32_Witness ==
  \E w \in AllWorkers :
    /\ Returned(w, "updateProgress") /\ ~ret[w].empty
    /\ \E st \in StatesOf("daily_new") : st.completed
    /\ \E st \in StatesOf("daily_send10") :
         st.completed /\ st.messageCount < DefaultDailySend


\* C33: in the value getUserProgress returns, every listed objective whose
\* target is positive and reached by the counter of its metric (its progress,
\* the smaller of counter and target, equals the target) is reported completed.
C33_ViewCompleted ==
  \A w \in AllWorkers :
    Returned(w, "getUserProgress") =>
      \A t \in QT :
        \A i \in 1..Len(ViewOf(w, t).objectives) :
          LET o == ViewOf(w, t).objectives[i]
          IN  (o.target > 0 /\ o.progress = o.target) => o.completed


\* No step takes a claimed flag back, and no objective id has been claimed
\* with success more than once.
ClaimedOnce ==
  /\ \A id \in DOMAIN claims' : claims'[id] <= 1
  /\ \A t \in QT :
       docs[t].exists =>
         \A i \in 1..Len(docs[t].Objectives) :
           docs[t].Objectives[i].claimed =>
             /\ i <= Len(docs'[t].Objectives)
             /\ docs'[t].Objectives[i].objectiveId = docs[t].Objectives[i].objectiveId
             /\ docs'[t].Objectives[i].claimed

\* C34 as claimed: in a sequential history at most one claimObjective call per
\* objective id succeeds, a claimed flag stays true, and every claim of an
\* objective whose state is claimed returns AlreadyClaimed.
C34_LaterClaimsAlreadyClaimed ==
  [][/\ ClaimedOnce
     /\ \A w \in AllWorkers :
          (ClaimReturns(w) /\ \E st \in StatesOf(op[w].objectiveId) : st.claimed) =>
            (~ret'[w].success /\ ret'[w].error = "Objective already claimed")]_vars

\* C34 amended: in a sequential history at most one claimObjective call per
\* objective id succeeds, a claimed flag stays true, and every claim of an
\* objective whose state is claimed fails: with AlreadyClaimed while a quest of
\* the catalog lists the objective, with NotFound (Objective not found) when
\* none does.
C34_LaterClaimsFail ==
  [][/\ ClaimedOnce
     /\ \A w \in AllWorkers :
          (ClaimReturns(w) /\ \E st \in StatesOf(op[w].objectiveId) : st.claimed) =>
            /\ ~ret'[w].success
            /\ ret'[w].error =
                 IF FindObjective(getAllQuests(quests), op[w].objectiveId).found
                 THEN "Objective already claimed" ELSE "Objective not found"]_vars

\* C34 witness: after a catalog change that a migration brought into the
\* document, a second claim of a claimed objective has returned AlreadyClaimed.
C34_Witness ==
  \E w \in AllWorkers :
    /\ Returned(w, "claimObjective")
    /\ ~ret[w].success
    /\ ret[w].error = "Objective already claimed"
    /\ ClaimCount(op[w].objectiveId) = 1
    /\ \E st \in StatesIn(docs["daily"], op[w].objectiveId) :
         st.claimed /\ st.xpReward \notin {DefaultDailySuccessXp, DefaultDailySendXp}


\* C35: the step in which claimObjective returns success changes, of all
\* documents, only the claimed flag of the first objective state with the given
\* id in the document of the quest type that lists the objective: it goes from
\* false to true; counters, QuestSeen, completed flags, the other objective
\* states, the other document and the catalog stay as they were.
C35_ClaimFrame ==
  [][\A w \in AllWorkers :
       (ClaimReturns(w) /\ ret'[w].success) =>
         LET f == FindObjective(getAllQuests(quests), op[w].objectiveId)
             t == f.questType
             i == FindIndex(docs[t].Objectives, op[w].objectiveId, 1)
         IN  /\ f.found /\ docs[t].exists /\ i # 0
             /\ ~docs[t].Objectives[i].claimed
             /\ docs' = [docs EXCEPT ![t].Objectives[i].claimed = TRUE]
             /\ quests' = quests]_vars

\* C35 witness: a claim has succeeded on a daily document that is marked not
\* seen, has counted events and holds another objective state, while a weekly
\* document exists.
C35_Witness ==
  \E w \in AllWorkers :
    /\ Returned(w, "claimObjective")
    /\ ret[w].success
    /\ docs["weekly"].exists
    /\ docs["daily"].exists
    /\ ~docs["daily"].QuestSeen
    /\ docs["daily"].currentMessages + docs["daily"].currentSuccessMessages > 0
    /\ \E i, j \in 1..Len(docs["daily"].Objectives) :
         /\ i # j
         /\ docs["daily"].Objectives[i].objectiveId = op[w].objectiveId
         /\ docs["daily"].Objectives[i].claimed
         /\ ~docs["daily"].Objectives[j].claimed


\* The claim that returns in this step is for an objective that no quest of the
\* catalog lists and whose state in a document is completed and not claimed.
ClaimsOrphan(w) ==
  /\ ClaimReturns(w)
  /\ ~FindObjective(getAllQuests(quests), op[w].objectiveId).found
  /\ \E st \in StatesOf(op[w].objectiveId) : st.completed /\ ~st.claimed

\* C36 as claimed: claimObjective for an objective that is absent from the
\* catalog and whose state in the document is completed and not claimed
\* succeeds.
C36_OrphanClaimable ==
  [][\A w \in AllWorkers : ClaimsOrphan(w) => ret'[w].success]_vars

\* C36 amended: claimObjective for an objective that is absent from the catalog
\* and whose state in the document is completed and not claimed returns
\* NotFound (Objective not found) with xp 0 and leaves the documents as they
\* are: the state stays completed and not claimed.
C36_OrphanNotFound ==
  [][\A w \in AllWorkers :
       ClaimsOrphan(w) =>
         /\ ret'[w] = ClaimError("Objective not found")
         /\ docs' = docs]_vars

\* C36 witness: a claim of a completed, unclaimed objective state whose
\* objective was removed from the catalog has returned.
C36_Witness ==
  \E w \in AllWorkers :
    /\ Returned(w, "claimObjective")
    /\ ~FindObjective(getAllQuests(quests), op[w].objectiveId).found
    /\ \E st \in StatesOf(op[w].objectiveId) : st.completed /\ ~st.claimed
    /\ ret[w] = ClaimError("Objective not found")


\* A migration run on the stored documents with the catalog as it is now would
\* save the document of period t: it exists and the loop body changes it.
MigrationWouldSave(t) ==
  /\ docs[t].exists
  /\ IsDirty([exists |-> TRUE, base |-> docs[t],
              cur |-> MigrateDocument(docs[t], FirstQuest(quests, t))])

\* C37: when migrateQuestProgress has returned, a second run with the catalog
\* unchanged finds no document to change and saves none.
C37_MigrationIdempotent ==
  \A w \in AllWorkers :
    Returned(w, "migrateQuestProgress") => \A t \in QT : ~MigrationWouldSave(t)

\* C37 witness: migrateQuestProgress has returned after it added an objective
\* state to the daily document and changed the values of another.
C37_Witness ==
  \E w \in AllWorkers :
    /\ Returned(w, "migrateQuestProgress")
    /\ \E st \in StatesIn(docs["daily"], "daily_new") : TRUE
    /\ \E st \in StatesIn(docs["daily"], "daily_success1") :
         st.messageCount # 0 \/ st.xpReward # DefaultDailySuccessXp


\* C38: a step in which updateProgress returns its empty failure result is
\* taken before the call has saved the daily document: no increment of the
\* call is stored when it fails (the call is at the weekly document exactly
\* after its daily save).
C38_UpdateAllOrNothing ==
  [][\A w \in AllWorkers :
       ( /\ pc[w] = "u_save"
         /\ pc'[w] = "returned"
         /\ ret'[w].empty ) => loc[w].t = "daily"]_vars


\* C39: once the default quests are initialized, the company has exactly one
\* quest daily_quest and exactly one quest weekly_quest, whatever the
\* interleaving of the calls that initialize them.
C39_OneQuestOfEachId ==
  Len(quests) > 0 =>
    \A id \in {"daily_quest", "weekly_quest"} :
      Cardinality({i \in 1..Len(quests) : quests[i].questId = id}) = 1


\* The Monday-to-Sunday week of date n lies inside one calendar year.
WeekInsideYear(n) ==
  LET monday == n - ((getDay(n) + 6) % 7)
  IN  getFullYear(monday) = getFullYear(monday + 6)

\* C40: for every date whose Monday-to-Sunday week lies inside one calendar
\* year, the week key of QuestService.ts and the week key of the copy in
\* part_002 are the same.
C40_WeekKeysAgree ==
  \A w \in AllWorkers :
    (pc[w] = "returned" /\ op[w].name = "keys" /\ WeekInsideYear(op[w].date)) =>
      ret[w].weekKey = ret[w].weekKeyIso8601

====
